---- MODULE Spec2Model ----
(***************************************************************************)
(* Expectation tracking of the machine-controller-manager controller       *)
(* utilities: ContExpectations (per-key add/del counters in a keyed store)  *)
(* and UIDTrackingContExpectations (the wrapper that remembers the UIDs of  *)
(* the expected deletions under one mutex).                                 *)
(*                                                                         *)
(* Every method is a sequence of steps, one per access to shared memory     *)
(* (a call of the keyed store, an atomic load or add, a read of the clock,  *)
(* a lock or unlock).  A step is an operator from the program state to the  *)
(* program state.  The sequential specification Spec runs a call's steps to *)
(* its return in one action; the concurrent specification SpecConc          *)
(* interleaves the steps of several threads.                                *)
(***************************************************************************)
EXTENDS Integers, Sequences, FiniteSets, TLC

VARIABLES
    store,          \* ContExpectations.Store: key -> pointer to its entry (NoObj: none)
    heap,           \* the ControlleeExpectations objects: pointer -> add, del, key, timestamp
    uidStore,       \* UIDTrackingContExpectations.uidStore: key -> its UIDSet
    uidStoreLock,   \* UIDTrackingContExpectations.uidStoreLock: the thread holding it
    now,            \* the clock, in minutes
    faults,         \* the calls of the backing stores that fail at present
    loc,            \* per thread: the frame of the call it is executing
    calls,          \* how many calls the concurrent clients may still start
    last,           \* the frame of the call the sequential client made last, at its return
    hInit,          \* history: per object, the counters it was constructed with
    hDelta,         \* history: per object, the deltas of the calls that fetched it
    lastAdd,        \* history: per key, what the last store.Add / store.Delete left
    hObs,           \* history: per key and UID of the set the key has now, how many
                    \* UID-aware DeletionObserved calls went on to lower the counter
    mc,             \* machine control: the call made last, with what it was given
                    \* and what it left
    upd,            \* the annotation updaters: the invocation that is running
    pure            \* the comparators and the hash: the function applied last

vars == <<store, heap, uidStore, uidStoreLock, now, faults, loc, calls, last,
          hInit, hDelta, lastAdd, hObs, mc, upd, pure>>

\* the history variables, which only the concurrent specifications write
hist == <<hInit, hDelta, lastAdd, hObs>>

----------------------------------------------------------------------------
(* Bounds and program constants *)

KeyOrder == <<"k1", "k2">>
Keys == {KeyOrder[i] : i \in DOMAIN KeyOrder}
UIDs == {"a", "b"}
Threads == {1, 2}

\* largest count a client passes, and largest counter the sequential client builds
MaxCount == 2
\* the sequential client lets a counter go this far below zero
MinCounter == -(MaxCount \div 2)
\* longest list of UIDs passed to the UID-aware ExpectDeletions
MaxBatch == 2
\* calls the threads of a concurrent specification make in all
MaxCalls == 3

\* ExpectationsTimeout = 5 * time.Minute
ExpectationsTimeout == 5
\* the clock is advanced to the expiry boundary (an age of exactly the timeout:
\* not yet expired) or just past it
TickSteps == {ExpectationsTimeout, ExpectationsTimeout + 1}
MaxTime == ExpectationsTimeout + 1

\* the nil *ControlleeExpectations
NoObj == 0
\* the unlocked sync.Mutex
NoThread == 0

\* The addresses.  The entries of a key live in the key's own range of
\* addresses: the entry in the store and the replaced entries that threads still
\* hold a pointer to.
ArenaSize == Cardinality(Threads) + 1
ObjIds == 1..(Len(KeyOrder) * ArenaSize)
KeyIndex(k) == CHOOSE i \in DOMAIN KeyOrder : KeyOrder[i] = k
Arena(k) == {(KeyIndex(k) - 1) * ArenaSize + s : s \in 1..ArenaSize}
Counts == 0..MaxCount

RECURSIVE SeqsUpTo(_, _)
SeqsUpTo(S, n) ==
    IF n = 0 THEN {<<>>}
    ELSE LET shorter == SeqsUpTo(S, n - 1)
         IN shorter \cup {Append(q, x) : q \in {p \in shorter : Len(p) = n - 1}, x \in S}

Batches == SeqsUpTo(UIDs, MaxBatch)

----------------------------------------------------------------------------
(* Values *)

\* the zero value of ControlleeExpectations (an unused heap cell)
ZeroExp == [add |-> 0, del |-> 0, key |-> "", timestamp |-> 0]
ZeroPair == [add |-> 0, del |-> 0]
\* a key the uid store holds no UIDSet for
NoUIDSet == [exists |-> FALSE, uids |-> {}]
NoWrite == [exists |-> FALSE, add |-> 0, del |-> 0, timestamp |-> 0]

IdleFrame ==
    [pc |-> "idle", fn |-> "", key |-> "", add |-> 0, del |-> 0, uid |-> "",
     uids |-> <<>>, ts |-> 0, exp |-> NoObj, exists |-> FALSE, err |-> FALSE, ret |-> FALSE]

\* the whole program state as one value, the argument and result of every step
Cur ==
    [store |-> store, heap |-> heap, uidStore |-> uidStore, lock |-> uidStoreLock,
     now |-> now, faults |-> faults, loc |-> loc]

Apply(S) ==
    /\ store' = S.store
    /\ heap' = S.heap
    /\ uidStore' = S.uidStore
    /\ uidStoreLock' = S.lock
    /\ now' = S.now
    /\ faults' = S.faults
    /\ loc' = S.loc

\* the objects something still points to: the store's entries and the threads' locals
Referenced(S) ==
    ({S.store[k] : k \in Keys} \cup {S.loc[t].exp : t \in Threads}) \ {NoObj}

\* the garbage collector: an object nothing points to is gone
Collect(S) ==
    LET live == Referenced(S)
    IN [S EXCEPT !.heap = [o \in ObjIds |-> IF o \in live THEN S.heap[o] ELSE ZeroExp]]

\* the address of a new entry of key k, as the store takes it: the lowest one
\* of the key's range that no thread points to (the entry it replaces is gone
\* with the replacement unless a thread still holds it)
NewObj(S, k) ==
    LET free == Arena(k) \ {S.loc[t].exp : t \in Threads}
    IN CHOOSE o \in free : \A p \in free : o <= p

----------------------------------------------------------------------------
(* The methods a client calls, as the frame each starts with *)

\* the methods that end in ControlleeExpectations.Add with negated arguments
LowerFns == {"LowerExpectations", "CreationObserved", "DeletionObserved",
             "UIDDeletionObserved"}
\* the methods of the wrapper that run under uidStoreLock
UIDFns == {"UIDExpectDeletions", "UIDDeletionObserved", "UIDDeleteExpectations"}

CallGetExpectations(k) ==
    [IdleFrame EXCEPT !.pc = "get", !.fn = "GetExpectations", !.key = k]

CallSatisfiedExpectations(k) ==
    [IdleFrame EXCEPT !.pc = "get", !.fn = "SatisfiedExpectations", !.key = k]

CallDeleteExpectations(k) ==
    [IdleFrame EXCEPT !.pc = "del_get", !.fn = "DeleteExpectations", !.key = k]

CallSetExpectations(k, add, del) ==
    [IdleFrame EXCEPT !.pc = "set_new", !.fn = "SetExpectations", !.key = k,
                      !.add = add, !.del = del]

\* return r.SetExpectations(controllerKey, adds, 0)
CallExpectCreations(k, adds) ==
    [CallSetExpectations(k, adds, 0) EXCEPT !.fn = "ExpectCreations"]

\* return r.SetExpectations(controllerKey, 0, dels)
CallExpectDeletions(k, dels) ==
    [CallSetExpectations(k, 0, dels) EXCEPT !.fn = "ExpectDeletions"]

CallLowerExpectations(k, add, del) ==
    [IdleFrame EXCEPT !.pc = "get", !.fn = "LowerExpectations", !.key = k,
                      !.add = add, !.del = del]

CallRaiseExpectations(k, add, del) ==
    [IdleFrame EXCEPT !.pc = "get", !.fn = "RaiseExpectations", !.key = k,
                      !.add = add, !.del = del]

\* r.LowerExpectations(controllerKey, 1, 0)
CallCreationObserved(k) ==
    [CallLowerExpectations(k, 1, 0) EXCEPT !.fn = "CreationObserved"]

\* r.LowerExpectations(controllerKey, 0, 1)
CallDeletionObserved(k) ==
    [CallLowerExpectations(k, 0, 1) EXCEPT !.fn = "DeletionObserved"]

CallUIDExpectDeletions(k, deletedKeys) ==
    [IdleFrame EXCEPT !.pc = "lock", !.fn = "UIDExpectDeletions", !.key = k,
                      !.uids = deletedKeys]

CallUIDDeletionObserved(k, deleteKey) ==
    [IdleFrame EXCEPT !.pc = "lock", !.fn = "UIDDeletionObserved", !.key = k,
                      !.uid = deleteKey]

CallUIDDeleteExpectations(k) ==
    [IdleFrame EXCEPT !.pc = "lock", !.fn = "UIDDeleteExpectations", !.key = k]

----------------------------------------------------------------------------
(* The keyed stores and the entry *)

\* cache.Store.GetByKey on the expectations store
GetByKey(S, k) ==
    IF "GetByKey" \in S.faults
    THEN [obj |-> NoObj, exists |-> FALSE, err |-> TRUE]
    ELSE [obj |-> S.store[k], exists |-> S.store[k] # NoObj, err |-> FALSE]

\* variant: the entry is handed out although the store's read failed
GetExpectationsIgnoresError(S, k) ==
    [exp |-> S.store[k], exists |-> S.store[k] # NoObj, err |-> FALSE]

\* ContExpectations.GetExpectations.  The err of the store's read is declared by
\* the if statement and lives in it; the err returned after it is the function's
\* own variable, which nothing assigns.
GetExpectations(S, k) ==
    LET got == GetByKey(S, k)
        err == FALSE
    IN IF ~got.err /\ got.exists
       THEN [exp |-> got.obj, exists |-> TRUE, err |-> FALSE]
       ELSE [exp |-> NoObj, exists |-> FALSE, err |-> err]

\* variant: Add keeps the entry the key already has
StoreAddIfAbsent(st, hp, o) ==
    IF st[hp[o].key] # NoObj THEN st ELSE [st EXCEPT ![hp[o].key] = o]

\* cache.Store.Add: the entry of the object's key (ExpKeyFunc) becomes the object
StoreAdd(st, hp, o) == [st EXCEPT ![hp[o].key] = o]

\* cache.Store.Delete: the entry of the object's key goes
\* variant: the delete empties the store
StoreDeleteAll(st, hp, o) == [k \in DOMAIN st |-> NoObj]

\* cache.Store.Delete(obj): the entry under obj's key is removed
StoreDelete(st, hp, o) == [st EXCEPT ![hp[o].key] = NoObj]

\* variant: the sum is computed and never stored
AtomicAddInt64Lost(v, delta) == v

\* atomic.AddInt64: the new value of the counter
AtomicAddInt64(v, delta) == v + delta

\* variant: a controller with no expectations waits
SatisfiedWithoutEntryWaits(err) == FALSE

\* SatisfiedExpectations when GetExpectations returned no entry: both remaining
\* branches only log, and the method returns true
SatisfiedWithoutEntry(err) == TRUE

\* variant: only the add counter is looked at
FulfilledAddOnly(add, del) == add <= 0

\* ControlleeExpectations.Fulfilled, on the two values it loads
Fulfilled(add, del) == add <= 0 /\ del <= 0

\* variant: the age is taken the wrong way round
isExpiredReversed(e, t) == e.timestamp - t > ExpectationsTimeout

\* ControlleeExpectations.isExpired
isExpired(e, t) == t - e.timestamp > ExpectationsTimeout

\* the arguments LowerExpectations / RaiseExpectations hand to exp.Add
Deltas(fr) ==
    IF fr.fn \in LowerFns
    THEN [add |-> -fr.add, del |-> -fr.del]
    ELSE [add |-> fr.add, del |-> fr.del]

\* UIDTrackingContExpectations.GetUIDs
GetUIDs(S, k) == S.uidStore[k]

\* variant: a Lock that never waits
LockAlwaysFree(S) == TRUE

\* sync.Mutex: Lock returns when the mutex is unlocked
LockFree(S) == S.lock = NoThread

\* where a method of the wrapper goes on when the wrapped method has returned
After(fr) ==
    CASE fr.fn = "UIDExpectDeletions" -> "unlock"
      [] fr.fn = "UIDDeletionObserved" -> "udo_delete"
      [] fr.fn = "UIDDeleteExpectations" -> "udx_del"
      [] OTHER -> "done"

----------------------------------------------------------------------------
(* The steps *)

\* r.GetExpectations(controllerKey) of GetExpectations, SatisfiedExpectations,
\* LowerExpectations and RaiseExpectations, and the branch on what it returns
StepGet(S, t) ==
    LET fr == S.loc[t]
        got == GetExpectations(S, fr.key)
    IN CASE fr.fn = "GetExpectations" ->
              [S EXCEPT !.loc[t] = [fr EXCEPT !.pc = "done", !.exp = got.exp,
                                               !.exists = got.exists, !.err = got.err]]
         [] fr.fn = "SatisfiedExpectations" ->
              IF got.exists
              THEN [S EXCEPT !.loc[t] = [fr EXCEPT !.pc = "ful_add", !.exp = got.exp]]
              ELSE [S EXCEPT !.loc[t] = [fr EXCEPT !.pc = "done",
                                                   !.ret = SatisfiedWithoutEntry(got.err)]]
         [] OTHER ->
              IF ~got.err /\ got.exists
              THEN [S EXCEPT !.loc[t] = [fr EXCEPT !.pc = "add_add", !.exp = got.exp]]
              ELSE [S EXCEPT !.loc[t] = [fr EXCEPT !.pc = After(fr)]]

\* ControlleeExpectations.Add: atomic.AddInt64(&exp.add, add)
StepAddAdd(S, t) ==
    LET fr == S.loc[t]
    IN [S EXCEPT !.heap[fr.exp].add = AtomicAddInt64(@, Deltas(fr).add),
                 !.loc[t] = [fr EXCEPT !.pc = "add_del"]]

\* variant: Add also refreshes the entry's timestamp
StepAddDelRefreshes(S, t) ==
    LET fr == S.loc[t]
    IN [S EXCEPT !.heap[fr.exp].del = AtomicAddInt64(@, Deltas(fr).del),
                 !.heap[fr.exp].timestamp = S.now,
                 !.loc[t] = [fr EXCEPT !.pc = After(fr), !.exp = NoObj]]

\* ControlleeExpectations.Add: atomic.AddInt64(&exp.del, del)
StepAddDel(S, t) ==
    LET fr == S.loc[t]
    IN [S EXCEPT !.heap[fr.exp].del = AtomicAddInt64(@, Deltas(fr).del),
                 !.loc[t] = [fr EXCEPT !.pc = After(fr), !.exp = NoObj]]

\* Fulfilled: atomic.LoadInt64(&exp.add) <= 0 && ...
StepFulAdd(S, t) ==
    LET fr == S.loc[t]
    IN IF Fulfilled(S.heap[fr.exp].add, 0)
       THEN [S EXCEPT !.loc[t] = [fr EXCEPT !.pc = "ful_del"]]
       ELSE [S EXCEPT !.loc[t] = [fr EXCEPT !.pc = "expired"]]

\* Fulfilled: ... && atomic.LoadInt64(&exp.del) <= 0
StepFulDel(S, t) ==
    LET fr == S.loc[t]
    IN IF Fulfilled(0, S.heap[fr.exp].del)
       THEN [S EXCEPT !.loc[t] = [fr EXCEPT !.pc = "done", !.ret = TRUE]]
       ELSE [S EXCEPT !.loc[t] = [fr EXCEPT !.pc = "expired"]]

\* else if exp.isExpired() { return true } else { return false }
StepExpired(S, t) ==
    LET fr == S.loc[t]
    IN [S EXCEPT !.loc[t] = [fr EXCEPT !.pc = "done",
                                       !.ret = isExpired(S.heap[fr.exp], S.now)]]

\* variant: setting expectations through a method that the wrapper does not
\* override forgets the identities tracked for the key
StepSetNewDropsUIDs(S, t) ==
    LET fr == S.loc[t]
    IN [S EXCEPT !.loc[t] = [fr EXCEPT !.pc = "set_add", !.ts = S.now],
                 !.uidStore[fr.key] = IF fr.fn \in UIDFns THEN @ ELSE NoUIDSet]

\* exp := &ControlleeExpectations{add, del, key, timestamp: clock.RealClock{}.Now()}
\* (the object is the thread's own until the store has it: it is kept in the frame)
StepSetNew(S, t) ==
    LET fr == S.loc[t]
    IN [S EXCEPT !.loc[t] = [fr EXCEPT !.pc = "set_add", !.ts = S.now]]

\* variant: a counter the call passes as zero is taken over from the entry replaced
StepSetAddMerges(S, t) ==
    LET fr == S.loc[t]
        old == S.store[fr.key]
        keep(new, was) == IF old # NoObj /\ new = 0 THEN was ELSE new
    IN IF "Add" \in S.faults
       THEN [S EXCEPT !.loc[t] = [fr EXCEPT !.pc = After(fr), !.ts = 0, !.err = TRUE]]
       ELSE LET o == NewObj(S, fr.key)
                exp == [add |-> keep(fr.add, S.heap[old].add),
                        del |-> keep(fr.del, S.heap[old].del),
                        key |-> fr.key, timestamp |-> fr.ts]
                hp == [S.heap EXCEPT ![o] = exp]
            IN [S EXCEPT !.heap = hp,
                         !.store = StoreAdd(S.store, hp, o),
                         !.loc[t] = [fr EXCEPT !.pc = After(fr), !.ts = 0]]

\* return r.Add(exp)
StepSetAdd(S, t) ==
    LET fr == S.loc[t]
    IN IF "Add" \in S.faults
       THEN [S EXCEPT !.loc[t] = [fr EXCEPT !.pc = After(fr), !.ts = 0, !.err = TRUE]]
       ELSE LET o == NewObj(S, fr.key)
                exp == [add |-> fr.add, del |-> fr.del, key |-> fr.key,
                        timestamp |-> fr.ts]
                hp == [S.heap EXCEPT ![o] = exp]
            IN [S EXCEPT !.heap = hp,
                         !.store = StoreAdd(S.store, hp, o),
                         !.loc[t] = [fr EXCEPT !.pc = After(fr), !.ts = 0]]

\* DeleteExpectations: if exp, exists, err := r.GetByKey(controllerKey); err == nil && exists
StepDelGet(S, t) ==
    LET fr == S.loc[t]
        got == GetByKey(S, fr.key)
    IN IF ~got.err /\ got.exists
       THEN [S EXCEPT !.loc[t] = [fr EXCEPT !.pc = "del_del", !.exp = got.obj,
                                            !.exists = TRUE]]
       ELSE [S EXCEPT !.loc[t] = [fr EXCEPT !.pc = After(fr), !.exists = got.exists]]

\* DeleteExpectations: r.Delete(exp)
StepDelDel(S, t) ==
    LET fr == S.loc[t]
    IN [S EXCEPT !.store = StoreDelete(S.store, S.heap, fr.exp),
                 !.loc[t] = [fr EXCEPT !.pc = After(fr), !.exp = NoObj]]

\* u.uidStoreLock.Lock()
StepLock(S, t) ==
    LET fr == S.loc[t]
        next == CASE fr.fn = "UIDExpectDeletions" -> "ued_add"
                  [] fr.fn = "UIDDeletionObserved" -> "udo_check"
                  [] OTHER -> "del_get"
    IN [S EXCEPT !.lock = t, !.loc[t] = [fr EXCEPT !.pc = next]]

\* variant: the return on an error of the store leaves the mutex locked
DeferredUnlockUnlessError(S, t) == IF S.loc[t].err THEN S.lock ELSE NoThread

\* the deferred u.uidStoreLock.Unlock(), as the method returns
DeferredUnlock(S, t) == NoThread

StepUnlock(S, t) ==
    [S EXCEPT !.lock = DeferredUnlock(S, t),
              !.loc[t] = [S.loc[t] EXCEPT !.pc = "done"]]

\* variant: the wrapped store is told the length of the list passed
StepUedAddCountsList(S, t) ==
    LET fr == S.loc[t]
        expectedUIDs == {fr.uids[i] : i \in DOMAIN fr.uids}
    IN IF "uidAdd" \in S.faults
       THEN [S EXCEPT !.loc[t] = [fr EXCEPT !.pc = "unlock", !.err = TRUE]]
       ELSE [S EXCEPT !.uidStore[fr.key] = [exists |-> TRUE, uids |-> expectedUIDs],
                      !.loc[t] = [fr EXCEPT !.pc = "set_new", !.add = 0,
                                            !.del = Len(fr.uids)]]

\* the UID-aware ExpectDeletions from the look at the existing set (which only
\* logs) to the call of the wrapped ExpectDeletions(rcKey, expectedUIDs.Len())
StepUedAdd(S, t) ==
    LET fr == S.loc[t]
        expectedUIDs == {fr.uids[i] : i \in DOMAIN fr.uids}
    IN IF "uidAdd" \in S.faults
       THEN [S EXCEPT !.loc[t] = [fr EXCEPT !.pc = "unlock", !.err = TRUE]]
       ELSE [S EXCEPT !.uidStore[fr.key] = [exists |-> TRUE, uids |-> expectedUIDs],
                      !.loc[t] = [fr EXCEPT !.pc = "set_new", !.add = 0,
                                            !.del = Cardinality(expectedUIDs)]]

\* variant: DeletionObserved lowers the counter whether the UID is expected or not
StepUdoCheckAlways(S, t) ==
    LET fr == S.loc[t]
    IN [S EXCEPT !.loc[t] = [fr EXCEPT !.pc = "get", !.add = 0, !.del = 1]]

\* the UID-aware DeletionObserved: uids != nil && uids.Has(deleteKey), and then
\* the call of the wrapped DeletionObserved(rcKey)
StepUdoCheck(S, t) ==
    LET fr == S.loc[t]
        uids == GetUIDs(S, fr.key)
    IN IF uids.exists /\ fr.uid \in uids.uids
       THEN [S EXCEPT !.loc[t] = [fr EXCEPT !.pc = "get", !.add = 0, !.del = 1]]
       ELSE [S EXCEPT !.loc[t] = [fr EXCEPT !.pc = "unlock"]]

\* variant: the identity observed stays in the set
StepUdoDeleteKeepsUID(S, t) ==
    LET fr == S.loc[t]
    IN [S EXCEPT !.loc[t] = [fr EXCEPT !.pc = "unlock"]]

\* the UID-aware DeletionObserved: uids.Delete(deleteKey)
StepUdoDelete(S, t) ==
    LET fr == S.loc[t]
    IN [S EXCEPT !.uidStore[fr.key].uids = @ \ {fr.uid},
                 !.loc[t] = [fr EXCEPT !.pc = "unlock"]]

\* variant: the UID set outlives the entry
StepUdxDelKeepsSet(S, t) ==
    LET fr == S.loc[t]
    IN [S EXCEPT !.loc[t] = [fr EXCEPT !.pc = "unlock",
                                       !.exists = S.uidStore[fr.key].exists]]

\* the UID-aware DeleteExpectations: u.uidStore.GetByKey and u.uidStore.Delete
StepUdxDel(S, t) ==
    LET fr == S.loc[t]
    IN [S EXCEPT !.uidStore[fr.key] = NoUIDSet,
                 !.loc[t] = [fr EXCEPT !.pc = "unlock",
                                       !.exists = S.uidStore[fr.key].exists]]

\* a thread inside a call moves unless it waits for the mutex
CanStep(S, t) ==
    /\ S.loc[t].pc \notin {"idle", "done"}
    /\ S.loc[t].pc = "lock" => LockFree(S)

StepOf(S, t) ==
    LET pc == S.loc[t].pc
    IN CASE pc = "get" -> StepGet(S, t)
         [] pc = "add_add" -> StepAddAdd(S, t)
         [] pc = "add_del" -> StepAddDel(S, t)
         [] pc = "ful_add" -> StepFulAdd(S, t)
         [] pc = "ful_del" -> StepFulDel(S, t)
         [] pc = "expired" -> StepExpired(S, t)
         [] pc = "set_new" -> StepSetNew(S, t)
         [] pc = "set_add" -> StepSetAdd(S, t)
         [] pc = "del_get" -> StepDelGet(S, t)
         [] pc = "del_del" -> StepDelDel(S, t)
         [] pc = "lock" -> StepLock(S, t)
         [] pc = "ued_add" -> StepUedAdd(S, t)
         [] pc = "udo_check" -> StepUdoCheck(S, t)
         [] pc = "udo_delete" -> StepUdoDelete(S, t)
         [] pc = "udx_del" -> StepUdxDel(S, t)
         [] pc = "unlock" -> StepUnlock(S, t)

\* the call has returned: its frame is gone, and what only it pointed to
Settle(S) ==
    Collect([S EXCEPT !.loc = [t \in Threads |->
                 IF S.loc[t].pc = "done" THEN IdleFrame ELSE S.loc[t]]])

\* the steps of thread t's call up to its return (or to where it waits)
RECURSIVE RunCall(_, _)
RunCall(S, t) == IF CanStep(S, t) THEN RunCall(StepOf(S, t), t) ELSE S

----------------------------------------------------------------------------
(* Machine control: RealMachineControl and FakeMachineControl.  A call is    *)
(* made on a record W that holds its arguments, the outcome the remote API   *)
(* will have for it, and the memory the template's collections lie in; the   *)
(* call returns W with the remote calls it made, the events it recorded,     *)
(* the error it returned and the machine it materialized.                    *)

\* a nil pointer, a nil map, a nil slice
Nil == "nil"

\* a nil error
NoError == [kind |-> Nil, msg |-> <<>>]

\* fmt.Errorf(format) and fmt.Errorf(format + "%v", err): a new error of the
\* errorString kind; of err only the text is kept
Errorf(format, err) == [kind |-> "errorString", msg |-> <<format>> \o err.msg]

\* an error of the remote API, which carries the reason of the failure
StatusError(reason) == [kind |-> reason, msg |-> <<reason>>]

\* what a call of the remote API can return as its error
RemoteErrors == {StatusError("NotFound"), StatusError("Forbidden")}
RemoteOutcomes == {NoError} \cup RemoteErrors

\* the reasons for machine events
FailedCreateMachineReason == "FailedCreate"
SuccessfulCreateMachineReason == "SuccessfulCreate"
FailedDeleteMachineReason == "FailedDelete"
SuccessfulDeleteMachineReason == "SuccessfulDelete"

\* Recorder.Eventf(object, eventtype, reason, messageFmt, args)
Eventf(object, eventtype, reason, messageFmt, args) ==
    [object |-> object, type |-> eventtype, reason |-> reason,
     message |-> <<messageFmt>> \o args]

\* the two implementations of MachineControlInterface
Real == "RealMachineControl"
Fake == "FakeMachineControl"
Implementations == {Real, Fake}

\* a *bool
Flags == {Nil, "false", "true"}

\* a nil *metav1.OwnerReference, and the references that are not nil
NilRef == [nil |-> TRUE, APIVersion |-> "", Kind |-> "",
           Controller |-> Nil, BlockOwnerDeletion |-> Nil]
ControllerRefs ==
    {NilRef} \cup [nil : {FALSE}, APIVersion : {"", "machine.sapcloud.io/v1alpha1"},
                   Kind : {"", "MachineSet"}, Controller : Flags,
                   BlockOwnerDeletion : Flags]

\* variant: a reference whose flags are not set passes
validateControllerRefWithoutFlags(controllerRef) ==
    IF controllerRef.nil THEN Errorf("controllerRef is nil", NoError)
    ELSE IF controllerRef.APIVersion = ""
    THEN Errorf("controllerRef has empty APIVersion", NoError)
    ELSE IF controllerRef.Kind = ""
    THEN Errorf("controllerRef has empty Kind", NoError)
    ELSE NoError

validateControllerRef(controllerRef) ==
    IF controllerRef.nil THEN Errorf("controllerRef is nil", NoError)
    ELSE IF controllerRef.APIVersion = ""
    THEN Errorf("controllerRef has empty APIVersion", NoError)
    ELSE IF controllerRef.Kind = ""
    THEN Errorf("controllerRef has empty Kind", NoError)
    ELSE IF controllerRef.Controller = Nil \/ controllerRef.Controller # "true"
    THEN Errorf("controllerRef.Controller is not set to true", NoError)
    ELSE IF controllerRef.BlockOwnerDeletion = Nil \/ controllerRef.BlockOwnerDeletion # "true"
    THEN Errorf("controllerRef.BlockOwnerDeletion is not set", NoError)
    ELSE NoError

\* validation.DNS1123SubdomainMaxLength
DNS1123SubdomainMaxLength == 253

\* a name of n characters
LongName(n) == [i \in 1..n |-> "m"]

\* the names of the parent objects, character by character: a subdomain, one
\* with a capital, one with a dash in front, the empty name, and the longest
\* names that pass and the shortest that does not once the dash is added
ParentNames ==
    {<<"m", "s">>, <<"M", "s">>, <<"-", "m", "s">>, <<>>,
     LongName(DNS1123SubdomainMaxLength), LongName(DNS1123SubdomainMaxLength + 1)}

\* the parent objects: one without ObjectMeta, and those that have it
Parents == {[meta |-> FALSE, name |-> <<>>]} \cup [meta : {TRUE}, name : ParentNames]

\* meta.Accessor(object): its error
Accessor(object) ==
    IF object.meta THEN NoError
    ELSE [kind |-> "errorString", msg |-> <<"object does not implement the Object interfaces">>]

\* the addresses of the collections of the template and of the machine
TemplateAddrs == {"template.Labels", "template.Annotations", "template.Finalizers",
                  "template.Spec.NodeTemplate"}
MachineAddrs == {"machine.Labels", "machine.Annotations", "machine.Finalizers",
                 "machine.Spec.NodeTemplate"}
Addrs == TemplateAddrs \cup MachineAddrs
Slices == {"template.Finalizers", "machine.Finalizers"}

\* memory with nothing in it
NoMem == [a \in Addrs |-> IF a \in Slices THEN <<>> ELSE {}]

\* the templates: each collection is nil or lies at its address
Templates ==
    [Labels : {Nil, "template.Labels"}, Annotations : {Nil, "template.Annotations"},
     Finalizers : {Nil, "template.Finalizers"},
     Spec : [Class : {"class"}, NodeTemplate : {Nil, "template.Spec.NodeTemplate"}]]

\* what the template's collections hold when the call is made
TemplateMems ==
    {[NoMem EXCEPT !["template.Labels"] = l,
                   !["template.Annotations"] = {"annotation"},
                   !["template.Finalizers"] = <<"finalizer">>,
                   !["template.Spec.NodeTemplate"] = {"node-label"}] :
        l \in {{}, {"label"}}}

\* what a map holds (ranging over a nil map finds nothing)
Contents(mem, ref) == IF ref = Nil THEN {} ELSE mem[ref]

\* what a slice holds (a nil slice has length 0)
Elements(mem, ref) == IF ref = Nil THEN <<>> ELSE mem[ref]

\* variant: the machine is handed the template's own map
getMachinesLabelSetShared(mem, template) ==
    [ref |-> template.Labels, mem |-> mem]

\* make(labels.Set), and the template's labels copied into it
getMachinesLabelSet(mem, template) ==
    [ref |-> "machine.Labels",
     mem |-> [mem EXCEPT !["machine.Labels"] = Contents(mem, template.Labels)]]

\* make([]string, len(template.Finalizers)), and copy
getMachinesFinalizers(mem, template) ==
    [ref |-> "machine.Finalizers",
     mem |-> [mem EXCEPT !["machine.Finalizers"] = Elements(mem, template.Finalizers)]]

\* make(labels.Set), and the template's annotations copied into it
getMachinesAnnotationSet(mem, template) ==
    [ref |-> "machine.Annotations",
     mem |-> [mem EXCEPT !["machine.Annotations"] = Contents(mem, template.Annotations)]]

\* the characters [a-z0-9] of a DNS label
LowerAlphanumerics ==
    {"a", "b", "c", "d", "e", "f", "g", "h", "i", "j", "k", "l", "m", "n", "o", "p", "q",
     "r", "s", "t", "u", "v", "w", "x", "y", "z",
     "0", "1", "2", "3", "4", "5", "6", "7", "8", "9"}

\* validation.maskTrailingDash: of a name of more than one character that
\* ends in a dash, the last two characters are replaced by an a
maskTrailingDash(name) ==
    IF Len(name) > 1 /\ name[Len(name)] = "-"
    THEN SubSeq(name, 1, Len(name) - 2) \o <<"a">>
    ELSE name

\* validation.IsDNS1123Subdomain(value) reports nothing: the value is at most
\* 253 characters long and is made of labels with dots between them, each
\* label of lower case alphanumerics and dashes, with an alphanumeric first
\* and last
IsDNS1123Subdomain(value) ==
    /\ Len(value) <= DNS1123SubdomainMaxLength
    /\ value # <<>>
    /\ \A i \in DOMAIN value : value[i] \in LowerAlphanumerics \cup {"-", "."}
    /\ value[1] \in LowerAlphanumerics
    /\ value[Len(value)] \in LowerAlphanumerics
    /\ \A i \in DOMAIN value :
          (value[i] = "." /\ 1 < i /\ i < Len(value)) =>
              /\ value[i - 1] \in LowerAlphanumerics
              /\ value[i + 1] \in LowerAlphanumerics

\* validation.NameIsDNSSubdomain(prefix, true) reports nothing
NameIsDNSSubdomain(prefix) == IsDNS1123Subdomain(maskTrailingDash(prefix))

getMachinesPrefix(controllerName) ==
    LET prefix == Append(controllerName, "-")
    IN IF ~NameIsDNSSubdomain(prefix) THEN controllerName ELSE prefix

\* template.Spec.DeepCopy(): the struct, and a new map for the map in it
DeepCopy(mem, spec) ==
    IF spec.NodeTemplate = Nil THEN [spec |-> spec, mem |-> mem]
    ELSE [spec |-> [spec EXCEPT !.NodeTemplate = "machine.Spec.NodeTemplate"],
          mem |-> [mem EXCEPT !["machine.Spec.NodeTemplate"] = mem[spec.NodeTemplate]]]

\* no machine
NoMachine == [nil |-> TRUE, Labels |-> Nil, Annotations |-> Nil, Finalizers |-> Nil,
              GenerateName |-> <<>>, Name |-> <<>>, OwnerReferences |-> <<>>,
              Spec |-> [Class |-> "", NodeTemplate |-> Nil]]

GetMachineFromTemplate(mem, template, parentObject, controllerRef) ==
    LET desiredLabels == getMachinesLabelSet(mem, template)
        desiredFinalizers == getMachinesFinalizers(desiredLabels.mem, template)
        desiredAnnotations == getMachinesAnnotationSet(desiredFinalizers.mem, template)
        err == Accessor(parentObject)
        prefix == getMachinesPrefix(parentObject.name)
        spec == DeepCopy(desiredAnnotations.mem, template.Spec)
    IN IF err # NoError
       THEN [machine |-> NoMachine, mem |-> desiredAnnotations.mem,
             err |-> Errorf("parentObject does not have ObjectMeta, ", err)]
       ELSE [machine |-> [nil |-> FALSE,
                          Labels |-> desiredLabels.ref,
                          Annotations |-> desiredAnnotations.ref,
                          Finalizers |-> desiredFinalizers.ref,
                          GenerateName |-> prefix,
                          Name |-> <<>>,
                          OwnerReferences |-> IF ~controllerRef.nil
                                              THEN <<controllerRef>> ELSE <<>>,
                          Spec |-> spec.spec],
             mem |-> spec.mem,
             err |-> NoError]

\* the first five characters of a new UUID
UUIDs == {<<"1", "a", "2", "b", "3">>, <<"4", "c", "5", "d", "6">>}

GetFakeMachineFromTemplate(mem, template, parentObject, controllerRef, uuid) ==
    LET desiredLabels == getMachinesLabelSet(mem, template)
        desiredFinalizers == getMachinesFinalizers(desiredLabels.mem, template)
        desiredAnnotations == getMachinesAnnotationSet(desiredFinalizers.mem, template)
        err == Accessor(parentObject)
        prefix == getMachinesPrefix(parentObject.name) \o <<"-">> \o uuid
        spec == DeepCopy(desiredAnnotations.mem, template.Spec)
    IN IF err # NoError
       THEN [machine |-> NoMachine, mem |-> desiredAnnotations.mem,
             err |-> Errorf("parentObject does not have ObjectMeta, ", err)]
       ELSE [machine |-> [nil |-> FALSE,
                          Labels |-> desiredLabels.ref,
                          Annotations |-> desiredAnnotations.ref,
                          Finalizers |-> desiredFinalizers.ref,
                          GenerateName |-> <<>>,
                          Name |-> prefix,
                          OwnerReferences |-> IF ~controllerRef.nil
                                              THEN <<controllerRef>> ELSE <<>>,
                          Spec |-> spec.spec],
             mem |-> spec.mem,
             err |-> NoError]

\* the machine as the remote API is sent it: what its collections hold
Sent(mem, machine) ==
    [Labels |-> Contents(mem, machine.Labels),
     Annotations |-> Contents(mem, machine.Annotations),
     Finalizers |-> Elements(mem, machine.Finalizers),
     GenerateName |-> machine.GenerateName,
     Name |-> machine.Name,
     OwnerReferences |-> machine.OwnerReferences,
     Spec |-> [Class |-> machine.Spec.Class,
               NodeTemplate |-> Contents(mem, machine.Spec.NodeTemplate)]]

\* a call of controlMachineClient.Machines(namespace)
RemoteCall(op, name, machine, data) ==
    [op |-> op, name |-> name, machine |-> machine, data |-> data]

\* the name of the machine a successful Create returns: the one sent, or one
\* the server generates from GenerateName
NewMachineName(machine, uuid) ==
    IF machine.Name # <<>> THEN machine.Name ELSE machine.GenerateName \o uuid

\* no call of machine control has been made.  Of a call, pc is the place the
\* method has got to: "call" when it is entered, "remote" when a create has
\* built its machine and is about to send it, "wait" while the remote call is
\* under way, "done" when the method has returned.
NoCall ==
    [impl |-> Nil, fn |-> Nil, pc |-> Nil,
     template |-> [Labels |-> Nil, Annotations |-> Nil, Finalizers |-> Nil,
                   Spec |-> [Class |-> "class", NodeTemplate |-> Nil]],
     object |-> [meta |-> FALSE, name |-> <<>>],
     controllerRef |-> NilRef, machineID |-> <<>>, data |-> "",
     outcome |-> NoError, uuid |-> <<>>,
     before |-> NoMem, mem |-> NoMem, machine |-> NoMachine,
     calls |-> <<>>, events |-> <<>>, err |-> NoError, mutated |-> Nil]

\* variant: a selector is never held to be empty
SelectorEmptyNever(ls) == FALSE

\* labels.Set(machine.Labels).AsSelectorPreValidated().Empty()
SelectorEmpty(ls) == ls = {}

\* the method returns err
Return(W, err) == [W EXCEPT !.pc = "done", !.err = err]

\* variant: a failed create is tried once more
RealCreateMachinesRetries(W, controllerRef) ==
    CASE W.pc = "call" ->
           LET got == GetMachineFromTemplate(W.mem, W.template, W.object, controllerRef)
           IN IF got.err # NoError
              THEN Return([W EXCEPT !.mem = got.mem], got.err)
              ELSE IF SelectorEmpty(Contents(got.mem, got.machine.Labels))
              THEN Return([W EXCEPT !.mem = got.mem, !.machine = got.machine],
                          Errorf("unable to create machines, no labels", NoError))
              ELSE [W EXCEPT !.mem = got.mem, !.machine = got.machine, !.pc = "remote"]
      [] W.pc = "remote" ->
           [W EXCEPT !.calls = <<RemoteCall("Create", <<>>, Sent(W.mem, W.machine), "")>>,
                     !.pc = "wait"]
      [] W.pc = "wait" ->
           IF W.outcome # NoError
           THEN Return([W EXCEPT !.calls = W.calls \o W.calls,
                                 !.events = <<Eventf(W.object, "Warning",
                                                     FailedCreateMachineReason,
                                                     "Error creating: ", W.outcome.msg)>>],
                       W.outcome)
           ELSE Return([W EXCEPT !.events = <<Eventf(W.object, "Normal",
                                                     SuccessfulCreateMachineReason,
                                                     "Created Machine: ",
                                                     NewMachineName(W.machine, W.uuid))>>],
                       NoError)
      [] OTHER -> W

\* RealMachineControl.createMachines, from the place W.pc to the next: the
\* machine is built and its labels are checked; it is sent to the remote API;
\* the answer is taken, the event recorded and the error returned
RealCreateMachines(W, controllerRef) ==
    CASE W.pc = "call" ->
           LET got == GetMachineFromTemplate(W.mem, W.template, W.object, controllerRef)
           IN IF got.err # NoError
              THEN Return([W EXCEPT !.mem = got.mem], got.err)
              ELSE IF SelectorEmpty(Contents(got.mem, got.machine.Labels))
              THEN Return([W EXCEPT !.mem = got.mem, !.machine = got.machine],
                          Errorf("unable to create machines, no labels", NoError))
              ELSE [W EXCEPT !.mem = got.mem, !.machine = got.machine, !.pc = "remote"]
      [] W.pc = "remote" ->
           [W EXCEPT !.calls = <<RemoteCall("Create", <<>>, Sent(W.mem, W.machine), "")>>,
                     !.pc = "wait"]
      [] W.pc = "wait" ->
           IF W.outcome # NoError
           THEN Return([W EXCEPT !.events = <<Eventf(W.object, "Warning",
                                                     FailedCreateMachineReason,
                                                     "Error creating: ", W.outcome.msg)>>],
                       W.outcome)
           ELSE IF Accessor(W.object) # NoError
           THEN Return(W, NoError)
           ELSE Return([W EXCEPT !.events = <<Eventf(W.object, "Normal",
                                                     SuccessfulCreateMachineReason,
                                                     "Created Machine: ",
                                                     NewMachineName(W.machine, W.uuid))>>],
                       NoError)
      [] OTHER -> W

\* FakeMachineControl.createMachines, from the place W.pc to the next
FakeCreateMachines(W, controllerRef) ==
    CASE W.pc = "call" ->
           LET got == GetFakeMachineFromTemplate(W.mem, W.template, W.object,
                                                 controllerRef, W.uuid)
           IN IF got.err # NoError
              THEN Return([W EXCEPT !.mem = got.mem], got.err)
              ELSE IF SelectorEmpty(Contents(got.mem, got.machine.Labels))
              THEN Return([W EXCEPT !.mem = got.mem, !.machine = got.machine],
                          Errorf("unable to create machines, no labels", NoError))
              ELSE [W EXCEPT !.mem = got.mem, !.machine = got.machine, !.pc = "remote"]
      [] W.pc = "remote" ->
           [W EXCEPT !.calls = <<RemoteCall("Create", <<>>, Sent(W.mem, W.machine), "")>>,
                     !.pc = "wait"]
      [] W.pc = "wait" ->
           IF W.outcome # NoError
           THEN Return([W EXCEPT !.events = <<Eventf(W.object, "Warning",
                                                     FailedCreateMachineReason,
                                                     "Error creating: ", W.outcome.msg)>>],
                       W.outcome)
           ELSE Return(W, NoError)
      [] OTHER -> W

createMachines(W, controllerRef) ==
    IF W.impl = Real THEN RealCreateMachines(W, controllerRef)
    ELSE FakeCreateMachines(W, controllerRef)

\* CreateMachines of both implementations
CreateMachines(W) == createMachines(W, NilRef)

\* CreateMachinesWithControllerRef of both implementations: the reference is
\* validated when the method is entered
CreateMachinesWithControllerRef(W) ==
    LET err == validateControllerRef(W.controllerRef)
    IN IF W.pc = "call" /\ err # NoError THEN Return(W, err)
       ELSE createMachines(W, W.controllerRef)

\* PatchMachine of both implementations: the patch is sent; the answer is
\* returned
PatchMachine(W) ==
    CASE W.pc = "call" ->
           [W EXCEPT !.calls = <<RemoteCall("Patch", W.machineID, Sent(NoMem, NoMachine),
                                            W.data)>>,
                     !.pc = "wait"]
      [] W.pc = "wait" -> Return(W, W.outcome)
      [] OTHER -> W

\* RealMachineControl.DeleteMachine: the object is looked at and the delete
\* sent; the answer is taken, the event recorded and the error returned
RealDeleteMachine(W) ==
    CASE W.pc = "call" ->
           LET err == Accessor(W.object)
           IN IF err # NoError
              THEN Return(W, Errorf("object does not have ObjectMeta, ", err))
              ELSE [W EXCEPT !.calls = <<RemoteCall("Delete", W.machineID,
                                                    Sent(NoMem, NoMachine), "")>>,
                             !.pc = "wait"]
      [] W.pc = "wait" ->
           IF W.outcome # NoError
           THEN Return([W EXCEPT !.events = <<Eventf(W.object, "Warning",
                                                     FailedDeleteMachineReason,
                                                     "Error deleting: ", W.outcome.msg)>>],
                       Errorf("unable to delete machines: ", W.outcome))
           ELSE Return([W EXCEPT !.events = <<Eventf(W.object, "Normal",
                                                     SuccessfulDeleteMachineReason,
                                                     "Deleted machine: ", W.machineID)>>],
                       NoError)
      [] OTHER -> W

\* FakeMachineControl.DeleteMachine
FakeDeleteMachine(W) ==
    CASE W.pc = "call" ->
           LET err == Accessor(W.object)
           IN IF err # NoError
              THEN Return(W, Errorf("object does not have ObjectMeta, ", err))
              ELSE [W EXCEPT !.calls = <<RemoteCall("Delete", W.machineID,
                                                    Sent(NoMem, NoMachine), "")>>,
                             !.pc = "wait"]
      [] W.pc = "wait" ->
           IF W.outcome # NoError
           THEN Return([W EXCEPT !.events = <<Eventf(W.object, "Warning",
                                                     FailedDeleteMachineReason,
                                                     "Error deleting: ", W.outcome.msg)>>],
                       Errorf("unable to delete machines: ", W.outcome))
           ELSE Return(W, NoError)
      [] OTHER -> W

DeleteMachine(W) ==
    IF W.impl = Real THEN RealDeleteMachine(W) ELSE FakeDeleteMachine(W)

\* materialization called on its own
Materialize(W) ==
    LET got == IF W.impl = Real
               THEN GetMachineFromTemplate(W.mem, W.template, W.object, W.controllerRef)
               ELSE GetFakeMachineFromTemplate(W.mem, W.template, W.object,
                                               W.controllerRef, W.uuid)
    IN IF W.pc = "call"
       THEN Return([W EXCEPT !.mem = got.mem, !.machine = got.machine], got.err)
       ELSE W

\* the methods of MachineControlInterface, and the materialization
MachineFns == {"CreateMachines", "CreateMachinesWithControllerRef", "DeleteMachine",
               "PatchMachine", "GetMachineFromTemplate"}

\* the method that the call W is of, from the place W.pc to the next
MachineControl(W) ==
    CASE W.fn = "CreateMachines" -> CreateMachines(W)
      [] W.fn = "CreateMachinesWithControllerRef" -> CreateMachinesWithControllerRef(W)
      [] W.fn = "DeleteMachine" -> DeleteMachine(W)
      [] W.fn = "PatchMachine" -> PatchMachine(W)
      [] W.fn = "GetMachineFromTemplate" -> Materialize(W)

\* the names of machines, and the patches
MachineIDs == {<<"m", "s", "-", "1", "a", "2", "b", "3">>}
Patches == {"merge-patch"}

\* the variables of the expectations stores
expVars == <<store, heap, uidStore, uidStoreLock, now, faults, loc, calls, last, hist>>

\* a call with its arguments and the outcome of its remote call, not yet made
Invoke(impl, fn, template, mem, object, controllerRef, machineID, data, outcome, uuid) ==
    [NoCall EXCEPT !.impl = impl, !.fn = fn, !.pc = "call", !.template = template,
                   !.object = object,
                   !.controllerRef = controllerRef, !.machineID = machineID,
                   !.data = data, !.outcome = outcome, !.uuid = uuid,
                   !.before = mem, !.mem = mem]

\* the method is entered and runs until it returns or has the remote API to
\* call
MachineCall(W) ==
    /\ mc' = MachineControl(W)
    /\ UNCHANGED <<expVars, upd, pure>>

\* the machine built is sent to the remote API
MachineRemote ==
    /\ mc.pc = "remote"
    /\ mc' = MachineControl(mc)
    /\ UNCHANGED <<expVars, upd, pure>>

\* the remote call comes back, and the method runs to its return
MachineReturn ==
    /\ mc.pc = "wait"
    /\ mc' = MachineControl(mc)
    /\ UNCHANGED <<expVars, upd, pure>>

\* the caller has taken what the call returned
MachineResume ==
    /\ mc.pc = "done"
    /\ mc' = NoCall
    /\ UNCHANGED <<expVars, upd, pure>>

CreateMachinesCall ==
    /\ mc = NoCall
    /\ \E impl \in Implementations, template \in Templates, mem \in TemplateMems,
          object \in Parents, outcome \in RemoteOutcomes, uuid \in UUIDs :
           MachineCall(Invoke(impl, "CreateMachines", template, mem, object, NilRef,
                              <<>>, "", outcome, uuid))

CreateMachinesWithControllerRefCall ==
    /\ mc = NoCall
    /\ \E impl \in Implementations, template \in Templates, mem \in TemplateMems,
          object \in Parents, outcome \in RemoteOutcomes, uuid \in UUIDs,
          controllerRef \in ControllerRefs :
           MachineCall(Invoke(impl, "CreateMachinesWithControllerRef", template, mem, object,
                              controllerRef, <<>>, "", outcome, uuid))

GetMachineFromTemplateCall ==
    /\ mc = NoCall
    /\ \E impl \in Implementations, template \in Templates, mem \in TemplateMems,
          object \in Parents, uuid \in UUIDs, controllerRef \in ControllerRefs :
           MachineCall(Invoke(impl, "GetMachineFromTemplate", template, mem, object,
                              controllerRef, <<>>, "", NoError, uuid))

DeleteMachineCall ==
    /\ mc = NoCall
    /\ \E impl \in Implementations, object \in Parents, machineID \in MachineIDs,
          outcome \in RemoteOutcomes :
           MachineCall(Invoke(impl, "DeleteMachine", NoCall.template, NoMem, object, NilRef,
                              machineID, "", outcome, <<>>))

PatchMachineCall ==
    /\ mc = NoCall
    /\ \E impl \in Implementations, machineID \in MachineIDs, data \in Patches,
          outcome \in RemoteOutcomes :
           MachineCall(Invoke(impl, "PatchMachine", NoCall.template, NoMem, NoCall.object,
                              NilRef, machineID, data, outcome, <<>>))

\* the collections of a machine or of a template
Fields == {"Labels", "Annotations", "Finalizers", "NodeTemplate"}

\* the pointer in the field of a machine or of a template
Pointer(holder, field) ==
    IF field = "NodeTemplate" THEN holder.Spec.NodeTemplate ELSE holder[field]

\* a write through a pointer: a key added to a map, an element of a slice set
Write(mem, ref) ==
    IF ref \in Slices
    THEN [mem EXCEPT ![ref] = [i \in DOMAIN @ |-> "changed"]]
    ELSE [mem EXCEPT ![ref] = @ \cup {"changed"}]

\* whoever holds the template, or the machine once the method has returned,
\* changes one of its collections; the template can be written to while the
\* method is about to call the remote API or waits for it
Mutate ==
    /\ ~mc.machine.nil
    /\ mc.mutated = Nil
    /\ \E via \in {"machine", "template"}, field \in Fields :
          LET ref == Pointer(mc[via], field)
          IN /\ via = "machine" => mc.pc = "done"
             /\ ref # Nil
             /\ mc' = [mc EXCEPT !.mem = Write(mc.mem, ref), !.mutated = via]
    /\ UNCHANGED <<expVars, upd, pure>>

----------------------------------------------------------------------------
(* The annotation updaters: AddOrUpdateAnnotationOnNode and                  *)
(* RemoveAnnotationsOffNode.  The record upd holds one invocation: its       *)
(* arguments, the node as the API server and as its cache have it, the       *)
(* locals of the retry loop, and the reads and writes made so far.           *)

\* UpdateAnnotationBackoff.Steps
UpdateAnnotationBackoffSteps == 5

\* how often another client writes the node during one invocation
MaxOtherWrites == 1

\* the annotation keys and values
AnnotationKeys == {"key"}
AnnotationValues == {"old", "new"}

\* the maps from annotation keys to values
AnnotationMaps ==
    UNION {[ks -> AnnotationValues] : ks \in SUBSET AnnotationKeys}

\* the map with nothing in it
NoAnnotations == [k \in {} |-> "old"]

\* the annotations argument: a nil map, or a map
AnnotationArgs ==
    {[nil |-> TRUE, m |-> NoAnnotations]} \cup [nil : {FALSE}, m : {NoAnnotations, [k \in AnnotationKeys |-> "new"]}]

\* the node names passed
NodeNames == {"", "node"}

\* no node
NoNode == [exists |-> FALSE, ann |-> NoAnnotations, rv |-> 0]

\* the node as the API server can have it when the invocation starts, and
\* what its cache can hold then: the same, or what was there one write before
ServerNodes == {NoNode} \cup [exists : {TRUE}, ann : AnnotationMaps, rv : {2}]
StaleNodes == {NoNode} \cup [exists : {TRUE}, ann : AnnotationMaps, rv : {1}]

\* errors.IsConflict(err)
IsConflict(err) == err.kind = "Conflict"

\* variant: every error is retried
IsRetriableAlways(err) == err # NoError

\* the retriable of RetryOnConflict
IsRetriable(err) == IsConflict(err)

\* variant: not-found is an error like the others
IsNotFoundNever(err) == FALSE

\* errors.IsNotFound(err)
IsNotFound(err) == err.kind = "NotFound"

\* variant: every attempt reads from the cache
GetOptionsAlwaysCached(firstTry) == "0"

\* the ResourceVersion of the GetOptions of an attempt
GetOptions(firstTry) == IF firstTry THEN "0" ELSE ""

\* annotationsutils.AddOrUpdateAnnotation: the node's annotations with those
\* asked for put over them, and whether that changed anything
AddOrUpdateAnnotation(oldNode, annotations) ==
    LET merged == [k \in DOMAIN oldNode.ann \cup DOMAIN annotations |->
                      IF k \in DOMAIN annotations THEN annotations[k] ELSE oldNode.ann[k]]
    IN [newNode |-> [oldNode EXCEPT !.ann = merged], updated |-> merged # oldNode.ann]

\* annotationsutils.RemoveAnnotation: the node's annotations without the keys
\* asked for, and whether that changed anything
RemoveAnnotation(oldNode, annotations) ==
    LET rest == [k \in DOMAIN oldNode.ann \ DOMAIN annotations |-> oldNode.ann[k]]
    IN [newNode |-> [oldNode EXCEPT !.ann = rest], updated |-> rest # oldNode.ann]

\* the merge of the updater called
Recompute(fn, oldNode, annotations) ==
    IF fn = "AddOrUpdateAnnotationOnNode" THEN AddOrUpdateAnnotation(oldNode, annotations)
    ELSE RemoveAnnotation(oldNode, annotations)

\* no invocation is running
NoUpdate ==
    [pc |-> "idle", fn |-> "", nodeName |-> "", annotations |-> [nil |-> TRUE, m |-> NoAnnotations],
     server |-> NoNode, cache |-> NoNode, others |-> 0,
     firstTry |-> FALSE, steps |-> 0, attempt |-> 0,
     oldNode |-> NoNode, newNode |-> NoNode, lastErr |-> NoError,
     reads |-> <<>>, merges |-> <<>>, writes |-> <<>>, err |-> NoError]

\* the short circuits: annotations == nil, and in RemoveAnnotationsOffNode
\* nodeName == ""
ShortCircuit(fn, nodeName, annotations) ==
    \/ annotations.nil
    \/ fn = "RemoveAnnotationsOffNode" /\ nodeName = ""

\* the call up to clientretry.RetryOnConflict
StartUpdate(fn, nodeName, annotations, server, cache) ==
    IF ShortCircuit(fn, nodeName, annotations)
    THEN [NoUpdate EXCEPT !.pc = "done", !.fn = fn, !.nodeName = nodeName,
                          !.annotations = annotations, !.server = server, !.cache = cache]
    ELSE [NoUpdate EXCEPT !.pc = "fetch", !.fn = fn, !.nodeName = nodeName,
                          !.annotations = annotations, !.server = server, !.cache = cache,
                          !.firstTry = TRUE, !.steps = UpdateAnnotationBackoffSteps]

\* clientretry.RetryOnConflict, as the function it retries returns err: nil
\* ends the loop, so does an error that is not retriable, and a retriable one
\* is kept and the function called again while the backoff has steps left
Retry(U, err) ==
    IF err = NoError THEN [U EXCEPT !.pc = "done", !.err = NoError]
    ELSE IF ~IsRetriable(err) THEN [U EXCEPT !.pc = "done", !.err = err]
    ELSE IF U.steps = 1 THEN [U EXCEPT !.pc = "done", !.lastErr = err, !.err = err]
    ELSE [U EXCEPT !.pc = "fetch", !.lastErr = err, !.steps = @ - 1]

\* what c.CoreV1().Nodes().Get can return: an error, or the node as the
\* server has it, or on a read with ResourceVersion "0" as the cache has it
GetResults(U, resourceVersion) ==
    IF U.nodeName = ""
    THEN {[err |-> [kind |-> "errorString", msg |-> <<"resource name may not be empty">>],
           node |-> NoNode]}
    ELSE LET found == {U.server} \cup (IF resourceVersion = "0" THEN {U.cache} ELSE {})
         IN {[err |-> IF n.exists THEN NoError ELSE StatusError("NotFound"), node |-> n] :
                n \in found}
            \cup {[err |-> StatusError(r), node |-> NoNode] : r \in {"Conflict", "InternalError"}}

\* the function retried, from its start to the check of what Get returned
FetchNode(U, got) ==
    LET V == [U EXCEPT !.attempt = @ + 1,
                       !.firstTry = FALSE,
                       !.reads = Append(@, [attempt |-> U.attempt + 1,
                                            resourceVersion |-> GetOptions(U.firstTry),
                                            err |-> got.err, node |-> got.node])]
    IN IF IsNotFound(got.err) THEN Retry(V, NoError)
       ELSE IF got.err # NoError THEN Retry(V, got.err)
       ELSE [V EXCEPT !.pc = "merge", !.oldNode = got.node]

\* the function retried, from the merge to the check of updated
MergeNode(U, mergeErr) ==
    LET merged == Recompute(U.fn, U.oldNode, U.annotations.m)
        V == [U EXCEPT !.merges = Append(@, [attempt |-> U.attempt, err |-> mergeErr,
                                             updated |-> merged.updated])]
    IN IF mergeErr # NoError THEN Retry(V, mergeErr)
       ELSE IF ~merged.updated THEN Retry(V, NoError)
       ELSE [V EXCEPT !.pc = "write", !.newNode = merged.newNode]

\* what Nodes().Update can return for the node sent: not-found when the node
\* is gone, a conflict when it was written since it was read, else nil or
\* some other failure
UpdateResults(U, newNodeClone) ==
    IF ~U.server.exists THEN {StatusError("NotFound")}
    ELSE IF U.server.rv # newNodeClone.rv THEN {StatusError("Conflict")}
    ELSE {NoError, StatusError("InternalError")}

\* UpdateNodeAnnotations, and the return of the function retried
WriteNode(U, updateErr) ==
    LET newNodeClone == [U.oldNode EXCEPT !.ann = U.newNode.ann]
        V == [U EXCEPT !.writes = Append(@, [attempt |-> U.attempt, node |-> newNodeClone,
                                             err |-> updateErr]),
                       !.server = IF updateErr = NoError
                                  THEN [newNodeClone EXCEPT !.rv = @ + 1] ELSE @]
    IN IF updateErr # NoError
       THEN Retry(V, Errorf("failed to create or update annotations for node: ", updateErr))
       ELSE Retry(V, NoError)

\* what another client can leave of the node: other annotations, or nothing
OtherWrites(node) ==
    {NoNode} \cup {[node EXCEPT !.ann = m, !.rv = @ + 1] : m \in AnnotationMaps \ {node.ann}}

\* what the merge can return as its error
MergeErrors == {NoError, [kind |-> "errorString", msg |-> <<"merge">>]}

\* the variables of the other components
notUpd == <<expVars, mc, pure>>

\* an updater is called
UpdateCall ==
    /\ upd.pc = "idle"
    /\ \E fn \in {"AddOrUpdateAnnotationOnNode", "RemoveAnnotationsOffNode"},
          nodeName \in NodeNames, annotations \in AnnotationArgs,
          server \in ServerNodes, stale \in StaleNodes, cached \in BOOLEAN :
           upd' = StartUpdate(fn, nodeName, annotations, server,
                              IF cached THEN server ELSE stale)
    /\ UNCHANGED notUpd

\* an attempt starts: the node is fetched
UpdateFetch ==
    /\ upd.pc = "fetch"
    /\ \E got \in GetResults(upd, GetOptions(upd.firstTry)) : upd' = FetchNode(upd, got)
    /\ UNCHANGED notUpd

\* the annotations are recomputed from the node fetched
UpdateMerge ==
    /\ upd.pc = "merge"
    /\ \E mergeErr \in MergeErrors : upd' = MergeNode(upd, mergeErr)
    /\ UNCHANGED notUpd

\* the node is written back
UpdateWrite ==
    /\ upd.pc = "write"
    /\ \E updateErr \in UpdateResults(upd, [upd.oldNode EXCEPT !.ann = upd.newNode.ann]) :
          upd' = WriteNode(upd, updateErr)
    /\ UNCHANGED notUpd

\* another client writes or deletes the node while the invocation runs
OtherClient ==
    /\ upd.pc \in {"fetch", "merge", "write"}
    /\ upd.others < MaxOtherWrites
    /\ upd.server.exists
    /\ \E n \in OtherWrites(upd.server) :
          upd' = [upd EXCEPT !.server = n, !.others = @ + 1]
    /\ UNCHANGED notUpd

\* the caller has taken what the updater returned
UpdateResume ==
    /\ upd.pc = "done"
    /\ upd' = NoUpdate
    /\ UNCHANGED notUpd

----------------------------------------------------------------------------
(* The comparators: ActiveMachines, MachineSetsByCreationTimestamp,          *)
(* MachineSetsBySizeOlder and MachineSetsBySizeNewer.  Strings are sequences *)
(* of characters, and pure holds the function applied last with what it was  *)
(* given and what it returned.                                               *)

\* the longest slice that is sorted
MaxMachines == 3

\* the value of a decimal digit, and -1 for every other character
DigitValue(c) ==
    CASE c = "0" -> 0 [] c = "1" -> 1 [] c = "2" -> 2 [] c = "3" -> 3 [] c = "4" -> 4
      [] c = "5" -> 5 [] c = "6" -> 6 [] c = "7" -> 7 [] c = "8" -> 8 [] c = "9" -> 9
      [] OTHER -> -1

\* A Go int is 64 bits wide, more than a number of the model holds, and is
\* written as a numeral: its sign, and the decimal digits of its magnitude
\* without zeros in front (0 is not negative).
StripZeros(digits) ==
    LET nonzero == {k \in DOMAIN digits : digits[k] # 0}
        first == IF nonzero = {} THEN Len(digits)
                 ELSE CHOOSE k \in nonzero : \A l \in nonzero : k <= l
    IN SubSeq(digits, first, Len(digits))

\* a < b of two magnitudes
DigitsLess(a, b) ==
    \/ Len(a) < Len(b)
    \/ /\ Len(a) = Len(b)
       /\ \E k \in DOMAIN a : a[k] < b[k] /\ \A l \in 1..(k - 1) : a[l] = b[l]

\* the int of a sign and a magnitude
GoInt(neg, digits) == [neg |-> neg /\ digits # <<0>>, digits |-> digits]

\* x < y of two ints
IntLess(x, y) ==
    IF x.neg # y.neg THEN x.neg
    ELSE IF x.neg THEN DigitsLess(y.digits, x.digits)
    ELSE DigitsLess(x.digits, y.digits)

\* 1<<64 - 1, 1<<63 - 1 and 1<<63: the greatest uint64, the greatest int and
\* the magnitude of the least int
MaxUint64 == <<1, 8, 4, 4, 6, 7, 4, 4, 0, 7, 3, 7, 0, 9, 5, 5, 1, 6, 1, 5>>
MaxInt == <<9, 2, 2, 3, 3, 7, 2, 0, 3, 6, 8, 5, 4, 7, 7, 5, 8, 0, 7>>
MinIntMagnitude == <<9, 2, 2, 3, 3, 7, 2, 0, 3, 6, 8, 5, 4, 7, 7, 5, 8, 0, 8>>

\* the errors of strconv
ErrSyntax == "invalid syntax"
ErrRange == "value out of range"

\* the digits of strconv.Atoi, read from the left onto the magnitude n: a
\* character that is no digit is a syntax error, and the reading stops with a
\* range error once the magnitude is more than a uint64 holds
RECURSIVE ParseDigits(_, _)
ParseDigits(s, n) ==
    IF s = <<>> THEN [num |-> n, err |-> Nil]
    ELSE IF DigitValue(Head(s)) < 0 THEN [num |-> <<0>>, err |-> ErrSyntax]
    ELSE LET n1 == StripZeros(Append(n, DigitValue(Head(s))))
         IN IF DigitsLess(MaxUint64, n1) THEN [num |-> MaxUint64, err |-> ErrRange]
            ELSE ParseDigits(Tail(s), n1)

\* strconv.Atoi: an optional sign, then one decimal digit or more; a value
\* that an int does not hold is a range error, returned with the int nearest
\* to it
Atoi(s) ==
    LET signed == s # <<>> /\ Head(s) \in {"+", "-"}
        neg == signed /\ Head(s) = "-"
        body == IF signed THEN Tail(s) ELSE s
        parsed == ParseDigits(body, <<0>>)
    IN IF body = <<>> \/ parsed.err = ErrSyntax
       THEN [num |-> GoInt(FALSE, <<0>>), err |-> ErrSyntax]
       ELSE IF parsed.err = ErrRange \/ (~neg /\ DigitsLess(MaxInt, parsed.num))
                                     \/ (neg /\ DigitsLess(MinIntMagnitude, parsed.num))
       THEN [num |-> IF neg THEN GoInt(TRUE, MinIntMagnitude) ELSE GoInt(FALSE, MaxInt),
             err |-> ErrRange]
       ELSE [num |-> GoInt(neg, parsed.num), err |-> Nil]

\* a string of n nines
Nines(n) == [k \in 1..n |-> "9"]

\* the values of the priority annotation: none, integers, other text, and
\* numbers that an int does not hold: twenty nines, and 1<<63
PriorityStrings ==
    {<<>>, <<"1">>, <<"3">>, <<"5">>, <<"-", "1">>, <<"+", "5">>, <<"1", "3">>,
     <<"a">>, <<"3", "a">>, <<"-">>, Nines(20),
     <<"9", "2", "2", "3", "3", "7", "2", "0", "3", "6", "8", "5", "4", "7", "7", "5",
       "8", "0", "8">>}

\* the annotations of a machine: a nil map, or a map, of which priority is
\* what the lookup of machineutils.MachinePriority gives ("" without the key)
MachineAnnotations ==
    {[nil |-> TRUE, priority |-> <<>>]} \cup [nil : {FALSE}, priority : PriorityStrings]

\* the phases: the seven of the table, and the phase of a machine that has none
MachinePhases ==
    {"Terminating", "Failed", "CrashLoopBackOff", "Unknown", "Pending", "Available",
     "Running", ""}

\* metav1.Time: an instant, and the location it is shown in
Times == [instant : 1..2, loc : {"UTC", "Local"}]

\* t.Before(u) and t.Equal(u) compare the instants
Before(t, u) == t.instant < u.instant
Equal(t, u) == t.instant = u.instant

\* the machines compared
Machines == [annotations : MachineAnnotations, phase : MachinePhases, creationTimestamp : Times]

\* the priority of a machine: 3, or what Atoi makes of the annotation
machinePriority(machine) ==
    IF ~machine.annotations.nil /\ machine.annotations.priority # <<>>
    THEN LET conv == Atoi(machine.annotations.priority)
         IN IF conv.err = Nil THEN conv.num ELSE GoInt(FALSE, <<3>>)
    ELSE GoInt(FALSE, <<3>>)

\* variant: the ranks of terminating and running exchanged
PhaseRankRunningFirst(phase) ==
    CASE phase = "Terminating" -> 6
      [] phase = "Failed" -> 1
      [] phase = "CrashLoopBackOff" -> 2
      [] phase = "Unknown" -> 3
      [] phase = "Pending" -> 4
      [] phase = "Available" -> 5
      [] phase = "Running" -> 0
      [] OTHER -> 0

\* variant: a phase that is no key of the map ranks after running
PhaseRankOtherLast(phase) ==
    CASE phase = "Terminating" -> 0
      [] phase = "Failed" -> 1
      [] phase = "CrashLoopBackOff" -> 2
      [] phase = "Unknown" -> 3
      [] phase = "Pending" -> 4
      [] phase = "Available" -> 5
      [] phase = "Running" -> 6
      [] OTHER -> 7

\* m[phase]: the map of the phase priorities, 0 for a phase that is no key
PhaseRank(phase) ==
    CASE phase = "Terminating" -> 0
      [] phase = "Failed" -> 1
      [] phase = "CrashLoopBackOff" -> 2
      [] phase = "Unknown" -> 3
      [] phase = "Pending" -> 4
      [] phase = "Available" -> 5
      [] phase = "Running" -> 6
      [] OTHER -> 0

\* ActiveMachines.Less
ActiveMachinesLess(s, i, j) ==
    LET machineIPriority == machinePriority(s[i])
        machineJPriority == machinePriority(s[j])
    IN IF machineIPriority # machineJPriority
       THEN IntLess(machineIPriority, machineJPriority)
       ELSE IF PhaseRank(s[i].phase) # PhaseRank(s[j].phase)
            THEN PhaseRank(s[i].phase) < PhaseRank(s[j].phase)
       ELSE IF s[i].creationTimestamp # s[j].creationTimestamp
            THEN Before(s[i].creationTimestamp, s[j].creationTimestamp)
       ELSE FALSE

\* the orders in which sort.Sort can leave a slice of machines: the slice
\* permuted so that no element is less than the one before it
Sorted(s) ==
    LET n == Len(s)
        perms == {p \in [1..n -> 1..n] : \A a, b \in 1..n : a # b => p[a] # p[b]}
        outs == {[k \in 1..n |-> s[p[k]]] : p \in perms}
    IN {t \in outs : \A k \in 1..(n - 1) : ~ActiveMachinesLess(t, k + 1, k)}

\* the machines that are sorted
SortedMachines ==
    [annotations : [nil : {FALSE}, priority : {<<"3">>, <<"5">>}],
     phase : {"Running", "Terminating"},
     creationTimestamp : [instant : 1..2, loc : {"UTC"}]]

\* the slices of them
MachineSlices == UNION {[1..n -> SortedMachines] : n \in 0..MaxMachines}

\* the code of a character
Byte(c) ==
    CASE c = "-" -> 45 [] c = "a" -> 97 [] c = "b" -> 98 [] c = "c" -> 99 [] c = "d" -> 100
      [] c = "x" -> 120 [] c = "y" -> 121

\* a < b of two strings: the order of the bytes
RECURSIVE StringLess(_, _)
StringLess(a, b) ==
    IF b = <<>> THEN FALSE
    ELSE IF a = <<>> THEN TRUE
    ELSE IF Head(a) # Head(b) THEN Byte(Head(a)) < Byte(Head(b))
    ELSE StringLess(Tail(a), Tail(b))

\* the names of machine sets
Names == {<<"a">>, <<"a", "b">>, <<"a", "-", "c">>, <<"b">>}

\* the machine sets compared
MachineSets == [name : Names, replicas : 1..2, creationTimestamp : Times]

\* MachineSetsByCreationTimestamp.Less
MachineSetsByCreationTimestampLess(o, i, j) ==
    IF Equal(o[i].creationTimestamp, o[j].creationTimestamp)
    THEN StringLess(o[i].name, o[j].name)
    ELSE Before(o[i].creationTimestamp, o[j].creationTimestamp)

\* variant: the larger machine set is not put first
MachineSetsBySizeOlderLessAscending(o, i, j) ==
    IF o[i].replicas = o[j].replicas
    THEN MachineSetsByCreationTimestampLess(o, i, j)
    ELSE o[i].replicas < o[j].replicas

\* MachineSetsBySizeOlder.Less
MachineSetsBySizeOlderLess(o, i, j) ==
    IF o[i].replicas = o[j].replicas
    THEN MachineSetsByCreationTimestampLess(o, i, j)
    ELSE o[i].replicas > o[j].replicas

\* MachineSetsBySizeNewer.Less
MachineSetsBySizeNewerLess(o, i, j) ==
    IF o[i].replicas = o[j].replicas
    THEN MachineSetsByCreationTimestampLess(o, j, i)
    ELSE o[i].replicas > o[j].replicas

\* the comparator of machine sets that is named
MachineSetsLess(fn, o, i, j) ==
    CASE fn = "MachineSetsByCreationTimestamp.Less" -> MachineSetsByCreationTimestampLess(o, i, j)
      [] fn = "MachineSetsBySizeOlder.Less" -> MachineSetsBySizeOlderLess(o, i, j)
      [] fn = "MachineSetsBySizeNewer.Less" -> MachineSetsBySizeNewerLess(o, i, j)

\* no function was applied
NoApply ==
    [fn |-> "", machines |-> <<>>, sets |-> <<>>, i |-> 0, j |-> 0, less |-> FALSE,
     sorted |-> <<>>, hashes |-> <<>>]

\* the variables of the other components
notPure == <<expVars, mc, upd>>

\* ActiveMachines.Less is applied to two places of a slice
ActiveMachinesLessCall ==
    /\ pure = NoApply
    /\ \E a, b \in Machines, i, j \in 1..2 :
          pure' = [NoApply EXCEPT !.fn = "ActiveMachines.Less", !.machines = <<a, b>>,
                                  !.i = i, !.j = j,
                                  !.less = ActiveMachinesLess(<<a, b>>, i, j)]
    /\ UNCHANGED notPure

\* a slice of machines is sorted
SortActiveMachines ==
    /\ pure = NoApply
    /\ \E s \in MachineSlices :
          \E t \in Sorted(s) :
             pure' = [NoApply EXCEPT !.fn = "sort.Sort(ActiveMachines)", !.machines = s,
                                     !.sorted = t]
    /\ UNCHANGED notPure

\* a comparator of machine sets is applied to two places of a slice
MachineSetsLessCall ==
    /\ pure = NoApply
    /\ \E fn \in {"MachineSetsByCreationTimestamp.Less", "MachineSetsBySizeOlder.Less",
                  "MachineSetsBySizeNewer.Less"},
          a, b \in MachineSets, i, j \in 1..2 :
          pure' = [NoApply EXCEPT !.fn = fn, !.sets = <<a, b>>, !.i = i, !.j = j,
                                  !.less = MachineSetsLess(fn, <<a, b>>, i, j)]
    /\ UNCHANGED notPure

\* the caller has taken the result
PureResume ==
    /\ pure # NoApply
    /\ pure' = NoApply
    /\ UNCHANGED notPure

----------------------------------------------------------------------------
(* ComputeHash.  A hash is kept as its two 16-bit halves, and a template     *)
(* holds its labels in the order in which the map gives them.  The call      *)
(* works on a memory: the template and the count that its two pointers       *)
(* point to, and the hasher and the buffer that it makes.                    *)

\* the labels of a template: entries of a map, no key twice
LabelKeys == {"a", "b"}
LabelValues == {"x", "y"}
LabelMaps ==
    {m \in UNION {[1..n -> [key : LabelKeys, value : LabelValues]] : n \in 0..2} :
        \A p, q \in DOMAIN m : p # q => m[p].key # m[q].key}

\* the machine template specs hashed
HashedTemplates == [labels : LabelMaps, class : {"c", "d"}]

\* collisionCount: nil, or an int32
CollisionCounts ==
    {[nil |-> TRUE, value |-> 0]}
        \cup [nil : {FALSE},
              value : {0 - 1, 0, 1, 2, 255, 256, 65535, 61142824, 67108868, 1364430845}]

\* x XOR y of two numbers of so many bits
RECURSIVE Xor(_, _, _)
Xor(x, y, bits) ==
    IF bits = 0 THEN 0
    ELSE ((x + y) % 2) + 2 * Xor(x \div 2, y \div 2, bits - 1)

\* fnv.New32a(): the offset basis 2166136261 = 0x811C9DC5
New32a == [hi |-> 33052, lo |-> 40389]

\* sum32a.Write of one byte: the hash XORed with the byte and multiplied by
\* the prime 16777619 = 2^24 + 403 modulo 2^32
WriteByte(h, b) ==
    LET lo == (h.lo \div 256) * 256 + Xor(h.lo % 256, b, 8)
        low == lo * 403
    IN [hi |-> (h.hi * 403 + (low \div 65536) + (lo % 256) * 256) % 65536,
        lo |-> low % 65536]

\* sum32a.Write
RECURSIVE HashWrite(_, _)
HashWrite(h, bytes) ==
    IF bytes = <<>> THEN h
    ELSE HashWrite(WriteByte(h, Head(bytes)), Tail(bytes))

\* the entries without the one at a place
Without(entries, k) ==
    [p \in 1..(Len(entries) - 1) |-> IF p < k THEN entries[p] ELSE entries[p + 1]]

\* the entries of a map in the order of their keys
RECURSIVE SortKeys(_)
SortKeys(entries) ==
    IF entries = <<>> THEN <<>>
    ELSE LET k == CHOOSE p \in DOMAIN entries :
                     \A q \in DOMAIN entries : Byte(entries[p].key) <= Byte(entries[q].key)
         IN <<entries[k]>> \o SortKeys(Without(entries, k))

\* the bytes printed for entries, one after the other
RECURSIVE PrintEntries(_)
PrintEntries(entries) ==
    IF entries = <<>> THEN <<>>
    ELSE <<Byte(Head(entries).key), 58, Byte(Head(entries).value), 44>>
             \o PrintEntries(Tail(entries))

\* hashutil.DeepHashObject: the hasher is reset and the object is printed
\* into it, the entries of its maps in the order of their keys
DeepHashObject(hasher, template) ==
    HashWrite(New32a, PrintEntries(SortKeys(template.labels)) \o <<Byte(template.class)>>)

\* binary.LittleEndian.PutUint32(collisionCountBytes, uint32(value)) into a
\* buffer of 8 bytes: the four bytes of the count in two's complement, the
\* lowest first
collisionCountBytes(value) ==
    <<value % 256, (value \div 256) % 256, (value \div 65536) % 256,
      (value \div 16777216) % 256, 0, 0, 0, 0>>

\* variant: the template is written to the hasher as its map gives the
\* entries, not through hashutil.DeepHashObject
ComputeHashAsIterated(mem, template, collisionCount) ==
    LET made == [mem EXCEPT !.machineTemplateSpecHasher = New32a]
        hashed == [made EXCEPT !.machineTemplateSpecHasher =
                       HashWrite(@, PrintEntries(made[template].labels)
                                       \o <<Byte(made[template].class)>>)]
        buffered == [hashed EXCEPT !.collisionCountBytes =
                         collisionCountBytes(hashed[collisionCount])]
        written == [buffered EXCEPT !.machineTemplateSpecHasher =
                        HashWrite(@, buffered.collisionCountBytes)]
        left == IF collisionCount # Nil THEN written ELSE hashed
    IN [sum |-> left.machineTemplateSpecHasher, mem |-> left]

\* variant: the collision count is left out of the hash
ComputeHashWithoutCount(mem, template, collisionCount) ==
    LET made == [mem EXCEPT !.machineTemplateSpecHasher = New32a]
        hashed == [made EXCEPT !.machineTemplateSpecHasher =
                       DeepHashObject(@, made[template])]
    IN [sum |-> hashed.machineTemplateSpecHasher, mem |-> hashed]

\* ComputeHash: a hasher is made; the template that the pointer gives is
\* handed to DeepHashObject with the hasher; with a count, a buffer is made,
\* the count that the pointer gives is put into it and the buffer is written
\* to the hasher; the sum of the hasher is returned.  What is returned with it
\* is the memory as the call leaves it.
ComputeHash(mem, template, collisionCount) ==
    LET made == [mem EXCEPT !.machineTemplateSpecHasher = New32a]
        hashed == [made EXCEPT !.machineTemplateSpecHasher =
                       DeepHashObject(@, made[template])]
        buffered == [hashed EXCEPT !.collisionCountBytes =
                         collisionCountBytes(hashed[collisionCount])]
        written == [buffered EXCEPT !.machineTemplateSpecHasher =
                        HashWrite(@, buffered.collisionCountBytes)]
        left == IF collisionCount # Nil THEN written ELSE hashed
    IN [sum |-> left.machineTemplateSpecHasher, mem |-> left]

\* ComputeHash is called, up to twice before the caller compares the sums.
\* The memory of a call holds the caller's template and count, and no hasher
\* and no buffer yet; the pointers passed are the places of the template and
\* of the count in it, the second nil when there is no count.  Kept of each
\* call are the template and the count it was called with, the sum it
\* returned, and the template and the count in the memory it left.
ComputeHashCall ==
    /\ pure.fn \in {"", "ComputeHash"}
    /\ Len(pure.hashes) < 2
    /\ \E template \in HashedTemplates, collisionCount \in CollisionCounts :
          LET mem == [template |-> template, collisionCount |-> collisionCount.value,
                      machineTemplateSpecHasher |-> [hi |-> 0, lo |-> 0],
                      collisionCountBytes |-> <<>>]
              got == ComputeHash(mem, "template",
                                 IF collisionCount.nil THEN Nil ELSE "collisionCount")
          IN pure' = [pure EXCEPT
                        !.fn = "ComputeHash",
                        !.hashes = Append(@, [template |-> template,
                                              collisionCount |-> collisionCount,
                                              sum |-> got.sum,
                                              templateAfter |-> got.mem.template,
                                              collisionCountAfter |->
                                                  [collisionCount EXCEPT
                                                      !.value = got.mem.collisionCount]])]
    /\ UNCHANGED notPure

----------------------------------------------------------------------------
(* Initial state: NewUIDTrackingContExpectations(NewContExpectations()) *)

InitStores ==
    /\ store = [k \in Keys |-> NoObj]
    /\ heap = [o \in ObjIds |-> ZeroExp]
    /\ uidStore = [k \in Keys |-> NoUIDSet]
    /\ uidStoreLock = NoThread
    /\ now = 0
    /\ faults = {}
    /\ loc = [t \in Threads |-> IdleFrame]
    /\ last = IdleFrame
    /\ hInit = [o \in ObjIds |-> ZeroPair]
    /\ hDelta = [o \in ObjIds |-> ZeroPair]
    /\ lastAdd = [k \in Keys |-> NoWrite]
    /\ hObs = [k \in Keys |-> [x \in UIDs |-> 0]]
    /\ mc = NoCall
    /\ upd = NoUpdate
    /\ pure = NoApply

----------------------------------------------------------------------------
(* The sequential specification: one client, the first thread.  The client  *)
(* calls a method with its arguments, the method runs from its first         *)
(* statement to its return with nothing in between, and the client takes     *)
(* what it returned and goes on.  The clock moves between calls.             *)

Client == CHOOSE t \in Threads : \A u \in Threads : t <= u

\* the sequential client makes no call that takes a counter out of the range
\* it explores
InRange(fr) ==
    LET o == store[fr.key]
        lowers == fr.fn = "UIDDeletionObserved" /\ fr.uid \in uidStore[fr.key].uids
        d == IF lowers THEN [add |-> 0, del |-> -1] ELSE Deltas(fr)
    IN (o # NoObj /\ (lowers \/ fr.fn \in LowerFns \cup {"RaiseExpectations"})) =>
           /\ heap[o].add + d.add \in MinCounter..MaxCount
           /\ heap[o].del + d.del \in MinCounter..MaxCount

\* what is kept of the frame of a call that has returned: the method, the key,
\* the arguments that say which entry was asked for, and what it returned
Returned(fr) ==
    [fr EXCEPT !.exp = NoObj,
               !.add = IF fr.fn \in {"LowerExpectations", "RaiseExpectations"} THEN 0 ELSE @,
               !.del = IF fr.fn \in {"LowerExpectations", "RaiseExpectations"} THEN 0 ELSE @]

\* the client calls a method
SeqCall(fr) ==
    /\ loc[Client].pc = "idle"
    /\ last.pc = "idle"
    /\ InRange(fr)
    /\ loc' = [loc EXCEPT ![Client] = fr]
    /\ UNCHANGED <<store, heap, uidStore, uidStoreLock, now, faults, calls, last, hist, mc, upd, pure>>

\* the method called runs to its return
SeqReturn ==
    LET S1 == RunCall(Cur, Client)
    IN /\ loc[Client].pc # "idle"
       /\ Apply(Settle(S1))
       /\ last' = Returned(S1.loc[Client])
       /\ UNCHANGED <<calls, hist, mc, upd, pure>>

\* the client has taken what the call returned
SeqResume ==
    /\ last.pc # "idle"
    /\ last' = IdleFrame
    /\ UNCHANGED <<store, heap, uidStore, uidStoreLock, now, faults, loc, calls, hist, mc, upd, pure>>

GetExpectationsCall == \E k \in Keys : SeqCall(CallGetExpectations(k))
SatisfiedExpectationsCall == \E k \in Keys : SeqCall(CallSatisfiedExpectations(k))
DeleteExpectationsCall == \E k \in Keys : SeqCall(CallDeleteExpectations(k))
SetExpectationsCall ==
    \E k \in Keys, add \in Counts, del \in Counts : SeqCall(CallSetExpectations(k, add, del))
ExpectCreationsCall == \E k \in Keys, n \in Counts : SeqCall(CallExpectCreations(k, n))
ExpectDeletionsCall == \E k \in Keys, n \in Counts : SeqCall(CallExpectDeletions(k, n))
LowerExpectationsCall ==
    \E k \in Keys, add \in Counts, del \in Counts : SeqCall(CallLowerExpectations(k, add, del))
RaiseExpectationsCall ==
    \E k \in Keys, add \in Counts, del \in Counts : SeqCall(CallRaiseExpectations(k, add, del))
CreationObservedCall == \E k \in Keys : SeqCall(CallCreationObserved(k))
DeletionObservedCall == \E k \in Keys : SeqCall(CallDeletionObserved(k))
UIDExpectDeletionsCall ==
    \E k \in Keys, ids \in Batches : SeqCall(CallUIDExpectDeletions(k, ids))
UIDDeletionObservedCall ==
    \E k \in Keys, id \in UIDs : SeqCall(CallUIDDeletionObserved(k, id))
UIDDeleteExpectationsCall == \E k \in Keys : SeqCall(CallUIDDeleteExpectations(k))

\* time passes
Tick ==
    /\ loc[Client].pc = "idle"
    /\ last.pc = "idle"
    /\ \E d \in TickSteps : now + d <= MaxTime /\ now' = now + d
    /\ UNCHANGED <<store, heap, uidStore, uidStoreLock, faults, loc, calls, last, hist, mc, upd, pure>>

Init == InitStores /\ calls = 0

Next ==
    \/ GetExpectationsCall
    \/ SatisfiedExpectationsCall
    \/ DeleteExpectationsCall
    \/ SetExpectationsCall
    \/ ExpectCreationsCall
    \/ ExpectDeletionsCall
    \/ LowerExpectationsCall
    \/ RaiseExpectationsCall
    \/ CreationObservedCall
    \/ DeletionObservedCall
    \/ SeqReturn
    \/ SeqResume
    \/ Tick

Spec == Init /\ [][Next]_vars

\* the client of the UID-tracking wrapper
NextUID ==
    \/ UIDExpectDeletionsCall
    \/ UIDDeletionObservedCall
    \/ UIDDeleteExpectationsCall
    \/ SatisfiedExpectationsCall
    \/ ExpectCreationsCall
    \/ CreationObservedCall
    \/ DeletionObservedCall
    \/ SeqReturn
    \/ SeqResume

SpecUID == Init /\ [][NextUID]_vars

\* the client of the wrapper that also calls the methods the wrapper forwards
NextWrap ==
    \/ UIDExpectDeletionsCall
    \/ UIDDeletionObservedCall
    \/ UIDDeleteExpectationsCall
    \/ SetExpectationsCall
    \/ ExpectCreationsCall
    \/ RaiseExpectationsCall
    \/ LowerExpectationsCall
    \/ CreationObservedCall
    \/ SeqReturn
    \/ SeqResume

SpecWrap == Init /\ [][NextWrap]_vars

\* the calls of the backing store that can fail
StoreFaults == {"GetByKey", "Add"}

\* between two calls, the backing store starts or stops failing one of its calls
StoreFault ==
    /\ loc[Client].pc = "idle"
    /\ last.pc = "idle"
    /\ \E f \in StoreFaults :
          faults' = IF f \in faults THEN faults \ {f} ELSE faults \cup {f}
    /\ UNCHANGED <<store, heap, uidStore, uidStoreLock, now, loc, calls, last, hist, mc, upd, pure>>

\* the client of an expectations store whose backing store fails at times
NextFault ==
    \/ GetExpectationsCall
    \/ SatisfiedExpectationsCall
    \/ DeleteExpectationsCall
    \/ SetExpectationsCall
    \/ CreationObservedCall
    \/ DeletionObservedCall
    \/ SeqReturn
    \/ SeqResume
    \/ Tick
    \/ StoreFault

SpecFault == Init /\ [][NextFault]_vars

\* the callers of machine control, and the holders of what it materialized
NextMC ==
    \/ CreateMachinesCall
    \/ CreateMachinesWithControllerRefCall
    \/ GetMachineFromTemplateCall
    \/ DeleteMachineCall
    \/ PatchMachineCall
    \/ MachineRemote
    \/ MachineReturn
    \/ MachineResume
    \/ Mutate

SpecMC == Init /\ [][NextMC]_vars

\* the callers of the annotation updaters, and the other clients of the node
NextUpd ==
    \/ UpdateCall
    \/ UpdateFetch
    \/ UpdateMerge
    \/ UpdateWrite
    \/ OtherClient
    \/ UpdateResume

SpecUpd == Init /\ [][NextUpd]_vars

\* the callers of the comparators
NextSort ==
    \/ ActiveMachinesLessCall
    \/ SortActiveMachines
    \/ MachineSetsLessCall
    \/ PureResume

SpecSort == Init /\ [][NextSort]_vars

\* the callers of ComputeHash
NextHash ==
    \/ ComputeHashCall
    \/ PureResume

SpecHash == Init /\ [][NextHash]_vars

----------------------------------------------------------------------------
(* The concurrent specifications: the threads make up to MaxCalls calls in  *)
(* all, and the steps of the calls interleave.  The history variables record,    *)
(* per entry, the counters it was constructed with and the deltas of the    *)
(* calls that fetched it, and per key what the last Add or Delete of the    *)
(* store left.                                                              *)

InitConc == InitStores /\ calls = MaxCalls

\* the history after thread t's step from Cur to R
HistInit(t, R) ==
    LET fr == loc[t]
    IN IF fr.pc = "set_add" /\ ~R.loc[t].err
       THEN [hInit EXCEPT ![NewObj(Cur, fr.key)] = [add |-> fr.add, del |-> fr.del]]
       ELSE hInit

HistDelta(t, R) ==
    LET fr == loc[t]
        d == Deltas(fr)
    IN CASE fr.pc = "set_add" /\ ~R.loc[t].err ->
              [hDelta EXCEPT ![NewObj(Cur, fr.key)] = ZeroPair]
         [] fr.pc = "get" /\ R.loc[t].pc = "add_add" ->
              [hDelta EXCEPT ![R.loc[t].exp] = [add |-> @.add + d.add,
                                                del |-> @.del + d.del]]
         [] OTHER -> hDelta

HistLastAdd(t, R) ==
    LET fr == loc[t]
    IN CASE fr.pc = "set_add" /\ ~R.loc[t].err ->
              [lastAdd EXCEPT ![fr.key] = [exists |-> TRUE, add |-> fr.add,
                                           del |-> fr.del, timestamp |-> fr.ts]]
         [] fr.pc = "del_del" ->
              [lastAdd EXCEPT ![heap[fr.exp].key] = NoWrite]
         [] OTHER -> lastAdd

HistObs(t, R) ==
    LET fr == loc[t]
    IN CASE fr.pc = "udo_check" /\ R.loc[t].pc = "get" ->
              [hObs EXCEPT ![fr.key][fr.uid] = @ + 1]
         [] fr.pc = "ued_add" /\ ~R.loc[t].err ->
              [hObs EXCEPT ![fr.key] = [x \in UIDs |-> 0]]
         [] fr.pc = "udx_del" ->
              [hObs EXCEPT ![fr.key] = [x \in UIDs |-> 0]]
         [] OTHER -> hObs

Live(S, h) == [o \in ObjIds |-> IF o \in Referenced(S) THEN h[o] ELSE ZeroPair]

\* one step of thread t
ConcStep(t) ==
    LET R == StepOf(Cur, t)
        S2 == Settle(R)
    IN /\ CanStep(Cur, t)
       /\ Apply(S2)
       /\ hInit' = Live(S2, HistInit(t, R))
       /\ hDelta' = Live(S2, HistDelta(t, R))
       /\ lastAdd' = HistLastAdd(t, R)
       /\ hObs' = HistObs(t, R)
       /\ UNCHANGED <<calls, last, mc, upd, pure>>

At(p) == \E t \in Threads : loc[t].pc = p /\ ConcStep(t)

\* thread t calls a method: a method of the wrapper starts at its Lock; the call
\* of any other method is taken together with the method's first step
ConcCall(t, fr) ==
    /\ loc[t].pc = "idle"
    /\ calls > 0
    /\ calls' = calls - 1
    /\ IF fr.pc = "lock"
       THEN /\ loc' = [loc EXCEPT ![t] = fr]
            /\ UNCHANGED <<store, heap, uidStore, uidStoreLock, now, faults, hist, mc, upd, pure>>
       ELSE LET C == [Cur EXCEPT !.loc[t] = fr]
                R == StepOf(C, t)
                S2 == Settle(R)
            IN /\ Apply(S2)
               /\ hInit' = Live(S2, hInit)
               /\ hDelta' = Live(S2,
                      IF fr.pc = "get" /\ R.loc[t].pc = "add_add"
                      THEN [hDelta EXCEPT ![R.loc[t].exp] =
                               [add |-> @.add + Deltas(fr).add,
                                del |-> @.del + Deltas(fr).del]]
                      ELSE hDelta)
               /\ UNCHANGED <<lastAdd, hObs>>
    /\ UNCHANGED <<last, mc, upd, pure>>

\* the keys and counts the concurrent clients use
ConcKeys == {"k1"}
ConcCounts == {1, 2}
ConcPairs == {<<1, 2>>, <<2, 1>>}

ConcSatisfiedExpectations ==
    \E t \in Threads, k \in ConcKeys : ConcCall(t, CallSatisfiedExpectations(k))
ConcDeleteExpectations ==
    \E t \in Threads, k \in ConcKeys : ConcCall(t, CallDeleteExpectations(k))
ConcSetExpectations ==
    \E t \in Threads, k \in ConcKeys, p \in ConcPairs :
        ConcCall(t, CallSetExpectations(k, p[1], p[2]))
ConcExpectCreations ==
    \E t \in Threads, k \in ConcKeys, n \in ConcCounts : ConcCall(t, CallExpectCreations(k, n))
ConcExpectDeletions ==
    \E t \in Threads, k \in ConcKeys, n \in ConcCounts : ConcCall(t, CallExpectDeletions(k, n))
ConcLowerExpectations ==
    \E t \in Threads, k \in ConcKeys, p \in ConcPairs :
        ConcCall(t, CallLowerExpectations(k, p[1], p[2]))
ConcRaiseExpectations ==
    \E t \in Threads, k \in ConcKeys, p \in ConcPairs :
        ConcCall(t, CallRaiseExpectations(k, p[1], p[2]))
ConcCreationObserved ==
    \E t \in Threads, k \in ConcKeys : ConcCall(t, CallCreationObserved(k))
ConcDeletionObserved ==
    \E t \in Threads, k \in ConcKeys : ConcCall(t, CallDeletionObserved(k))
ConcUIDExpectDeletions ==
    \E t \in Threads, k \in ConcKeys, ids \in Batches : ConcCall(t, CallUIDExpectDeletions(k, ids))
ConcUIDDeletionObserved ==
    \E t \in Threads, k \in ConcKeys, id \in UIDs : ConcCall(t, CallUIDDeletionObserved(k, id))
ConcUIDDeleteExpectations ==
    \E t \in Threads, k \in ConcKeys : ConcCall(t, CallUIDDeleteExpectations(k))

\* the clock moves while calls are under way
ConcTick ==
    /\ \E d \in TickSteps : now + d <= MaxTime /\ now' = now + d
    /\ UNCHANGED <<store, heap, uidStore, uidStoreLock, faults, loc, calls, last, hist, mc, upd, pure>>

\* the uid store starts or stops failing its Add
UIDStoreFault ==
    /\ faults' = IF "uidAdd" \in faults THEN faults \ {"uidAdd"} ELSE faults \cup {"uidAdd"}
    /\ UNCHANGED <<store, heap, uidStore, uidStoreLock, now, loc, calls, last, hist, mc, upd, pure>>

\* concurrent clients of the expectations store
NextConc ==
    \/ ConcSatisfiedExpectations
    \/ ConcDeleteExpectations
    \/ ConcSetExpectations
    \/ ConcExpectCreations
    \/ ConcExpectDeletions
    \/ ConcLowerExpectations
    \/ ConcRaiseExpectations
    \/ ConcCreationObserved
    \/ ConcDeletionObserved
    \/ At("add_add")
    \/ At("add_del")
    \/ At("ful_add")
    \/ At("ful_del")
    \/ At("expired")
    \/ At("set_add")
    \/ At("del_del")
    \/ ConcTick

SpecConc == InitConc /\ [][NextConc]_vars

\* concurrent clients of the UID-tracking wrapper
NextConcUID ==
    \/ ConcUIDExpectDeletions
    \/ ConcUIDDeletionObserved
    \/ ConcUIDDeleteExpectations
    \/ ConcSatisfiedExpectations
    \/ ConcCreationObserved
    \/ ConcDeletionObserved
    \/ ConcExpectCreations
    \/ At("lock")
    \/ At("ued_add")
    \/ At("udo_check")
    \/ At("udo_delete")
    \/ At("udx_del")
    \/ At("unlock")
    \/ At("get")
    \/ At("add_add")
    \/ At("add_del")
    \/ At("ful_add")
    \/ At("ful_del")
    \/ At("expired")
    \/ At("set_new")
    \/ At("set_add")
    \/ At("del_get")
    \/ At("del_del")
    \/ UIDStoreFault

SpecConcUID == InitConc /\ [][NextConcUID]_vars

\* concurrent clients that call only the methods the wrapper overrides
NextConcWrap ==
    \/ ConcUIDExpectDeletions
    \/ ConcUIDDeletionObserved
    \/ ConcUIDDeleteExpectations
    \/ At("lock")
    \/ At("ued_add")
    \/ At("udo_check")
    \/ At("udo_delete")
    \/ At("udx_del")
    \/ At("unlock")
    \/ At("get")
    \/ At("add_add")
    \/ At("add_del")
    \/ At("set_new")
    \/ At("set_add")
    \/ At("del_get")
    \/ At("del_del")
    \/ UIDStoreFault

SpecConcWrap == InitConc /\ [][NextConcWrap]_vars

----------------------------------------------------------------------------
(* Properties *)

HasEntry(k) == store[k] # NoObj
Entry(k) == heap[store[k]]
\* the time since the entry's timestamp
Age(k) == now - Entry(k).timestamp

\* the sequential client's last call was SatisfiedExpectations(k), and it has returned
SatisfiedReturned(k) ==
    last.pc = "done" /\ last.fn = "SatisfiedExpectations" /\ last.key = k

\* C1: while the entry of k has not timed out, SatisfiedExpectations(k) returns
\* false as long as add > 0 or del > 0, and true once both counters are <= 0.
C1_SatisfiedFollowsCounters ==
    \A k \in Keys :
        (SatisfiedReturned(k) /\ HasEntry(k) /\ Age(k) <= ExpectationsTimeout)
            => (last.ret <=> (Entry(k).add <= 0 /\ Entry(k).del <= 0))

\* an entry exactly as old as the timeout, lowered below zero: satisfied by its counters
C1_Witness ==
    \E k \in Keys :
        /\ SatisfiedReturned(k) /\ HasEntry(k)
        /\ Age(k) = ExpectationsTimeout
        /\ Entry(k).add = 0 /\ Entry(k).del < 0
        /\ last.ret

\* C2: once more than ExpectationsTimeout has passed since the entry's timestamp,
\* SatisfiedExpectations(k) returns true whatever the counters are.
C2_ExpiredIsSatisfied ==
    \A k \in Keys :
        (SatisfiedReturned(k) /\ HasEntry(k) /\ Age(k) > ExpectationsTimeout) => last.ret

C2_Witness ==
    \E k \in Keys :
        /\ SatisfiedReturned(k) /\ HasEntry(k)
        /\ Age(k) > ExpectationsTimeout
        /\ Entry(k).add > 0 /\ Entry(k).del > 0
        /\ last.ret

\* C3: for a key with no entry (never set, or deleted) SatisfiedExpectations
\* returns true, whatever the calls on other keys have left.
C3_NoEntryIsSatisfied ==
    \A k \in Keys : (SatisfiedReturned(k) /\ ~HasEntry(k)) => last.ret

\* the other key has an entry that is itself not satisfied
C3_Witness ==
    \E k \in Keys, j \in Keys :
        /\ j # k
        /\ SatisfiedReturned(k) /\ ~HasEntry(k) /\ last.ret
        /\ HasEntry(j) /\ Entry(j).add > 0 /\ Age(j) <= ExpectationsTimeout

\* the step is the return of the sequential client's call of method fn
Returns(fn) == loc[Client].fn = fn /\ loc[Client].pc # "idle" /\ loc'[Client].pc = "idle"

\* after the call, the entry of k is the new one: these counters, stamped now
Replaced(k, add, del) ==
    /\ store'[k] # NoObj
    /\ heap'[store'[k]] = [add |-> add, del |-> del, key |-> k, timestamp |-> now]

\* C4: SetExpectations, ExpectCreations and ExpectDeletions replace the whole
\* entry: after ExpectCreations(k, m) the entry has add = m, del = 0 and the time
\* of that call as its timestamp, whatever ExpectDeletions(k, n) had left; and
\* likewise for the other two.
C4_SetReplacesEntry ==
    [][\A k \in Keys, m \in Counts, n \in Counts :
          /\ (Returns("ExpectCreations") /\ loc[Client] = CallExpectCreations(k, m))
                => Replaced(k, m, 0)
          /\ (Returns("ExpectDeletions") /\ loc[Client] = CallExpectDeletions(k, n))
                => Replaced(k, 0, n)
          /\ (Returns("SetExpectations") /\ loc[Client] = CallSetExpectations(k, m, n))
                => Replaced(k, m, n)]_vars

C4_Witness ==
    /\ last.pc = "done" /\ last.fn = "ExpectCreations" /\ last.add > 0
    /\ now > 0
    /\ HasEntry(last.key)
    /\ Entry(last.key) = [add |-> last.add, del |-> 0, key |-> last.key, timestamp |-> now]

\* C5: the UID-aware DeletionObserved(k, x) lowers the del counter of k by
\* exactly 1 and takes x out of the set when x is in the set of k, and changes
\* nothing when it is not (x already observed, or never expected).
C5_ObservedOncePerUID ==
    [][\A k \in Keys, x \in UIDs :
          (Returns("UIDDeletionObserved") /\ loc[Client] = CallUIDDeletionObserved(k, x)) =>
              IF uidStore[k].exists /\ x \in uidStore[k].uids
              THEN /\ uidStore' = [uidStore EXCEPT ![k].uids = @ \ {x}]
                   /\ store' = store
                   /\ HasEntry(k)
                   /\ heap' = [heap EXCEPT ![store[k]].del = @ - 1]
              ELSE /\ uidStore' = uidStore
                   /\ store' = store
                   /\ heap' = heap]_vars

\* of the two UIDs expected, one has been observed and counted
C5_Witness ==
    \E k \in Keys, x \in UIDs :
        /\ last.pc = "done" /\ last.fn = "UIDDeletionObserved"
        /\ last.key = k /\ last.uid = x
        /\ uidStore[k].exists /\ uidStore[k].uids = UIDs \ {x}
        /\ HasEntry(k) /\ Entry(k).add = 0 /\ Entry(k).del = 1

\* thread t is inside the critical section of a method of the wrapper
InCS(t) == loc[t].fn \in UIDFns /\ loc[t].pc \notin {"idle", "lock"}

\* thread t's DeletionObserved(k, x) has found x in the set and not yet removed it
Observing(t, k, x) ==
    /\ loc[t].fn = "UIDDeletionObserved" /\ loc[t].key = k /\ loc[t].uid = x
    /\ loc[t].pc \in {"get", "add_add", "add_del", "udo_delete"}

\* C6: the membership check and the decrement of the UID-aware DeletionObserved
\* are atomic with respect to the other calls of the wrapper: one thread at a
\* time is between Lock and Unlock, a UID that a call found in the set is still
\* in it until that call removes it, and of the DeletionObserved(k, x) calls on
\* one set exactly one goes on to lower the counter.
C6_CheckAndLowerAtomic ==
    /\ \A t \in Threads, u \in Threads : (InCS(t) /\ InCS(u)) => t = u
    /\ \A t \in Threads : InCS(t) => uidStoreLock = t
    /\ \A k \in Keys, x \in UIDs :
          /\ hObs[k][x] <= 1
          /\ \A t \in Threads :
                Observing(t, k, x) => (uidStore[k].exists /\ x \in uidStore[k].uids
                                       /\ hObs[k][x] = 1)
          /\ (uidStore[k].exists /\ x \in uidStore[k].uids
                /\ \A t \in Threads : ~Observing(t, k, x)) => hObs[k][x] = 0

\* two DeletionObserved(k, x) at once: one lowers the counter, the other waits
C6_Witness ==
    \E t \in Threads, u \in Threads, k \in Keys, x \in UIDs :
        /\ t # u
        /\ Observing(t, k, x) /\ loc[t].pc = "add_del"
        /\ loc[u].fn = "UIDDeletionObserved" /\ loc[u].key = k /\ loc[u].uid = x
        /\ loc[u].pc = "lock"
        /\ hObs[k][x] = 1

\* whoever holds uidStoreLock is a thread between its Lock and its deferred
\* Unlock that can take its next step; no thread arrives at Lock holding it;
\* and a thread that cannot step is waiting for such a holder
HolderRuns ==
    /\ uidStoreLock # NoThread => (InCS(uidStoreLock) /\ CanStep(Cur, uidStoreLock))
    /\ \A t \in Threads : loc[t].pc = "lock" => uidStoreLock # t
    /\ \A t \in Threads :
          loc[t].pc # "idle" =>
              \/ CanStep(Cur, t)
              \/ /\ loc[t].pc = "lock"
                 /\ uidStoreLock \in Threads \ {t}
                 /\ CanStep(Cur, uidStoreLock)

\* how many statements a method of the wrapper has yet to execute, at most,
\* before it has returned
StepsToReturn(pc) ==
    CASE pc = "idle" -> 0
      [] pc = "unlock" -> 1
      [] pc \in {"udx_del", "udo_delete", "set_add"} -> 2
      [] pc \in {"del_del", "add_del", "set_new"} -> 3
      [] pc \in {"del_get", "add_add", "ued_add"} -> 4
      [] pc = "get" -> 5
      [] pc = "udo_check" -> 6
      [] OTHER -> 7

\* C7: no thread waits forever for uidStoreLock.  The mutex is released on every
\* return path (the error return of ExpectDeletions included) and never
\* acquired by the thread that holds it: at all times the holder is a thread
\* inside its critical section that can step, a thread that cannot step waits
\* for such a holder, and every step of a thread inside its critical section
\* brings it closer to its return, which unlocks.
C7_NoThreadWaitsForever ==
    /\ HolderRuns
    /\ [][/\ HolderRuns'
          /\ \A t \in Threads :
                (InCS(t) /\ loc'[t] # loc[t]) =>
                    /\ StepsToReturn(loc'[t].pc) < StepsToReturn(loc[t].pc)
                    /\ loc'[t].pc = "idle" => uidStoreLock' = NoThread]_vars

\* a thread waits while ExpectDeletions is on its error return, about to unlock
C7_Witness ==
    \E t \in Threads, u \in Threads :
        /\ loc[t].pc = "lock"
        /\ uidStoreLock = u
        /\ loc[u].fn = "UIDExpectDeletions" /\ loc[u].pc = "unlock" /\ loc[u].err

RECURSIVE SumOver(_, _)
SumOver(f, S) ==
    IF S = {} THEN 0
    ELSE LET x == CHOOSE y \in S : TRUE IN f[x] + SumOver(f, S \ {x})

\* the deltas of the calls that have fetched object o and not yet added them
PendingAdd(o) ==
    SumOver([t \in Threads |->
                IF loc[t].exp = o /\ loc[t].pc = "add_add"
                THEN Deltas(loc[t]).add ELSE 0], Threads)
PendingDel(o) ==
    SumOver([t \in Threads |->
                IF loc[t].exp = o /\ loc[t].pc \in {"add_add", "add_del"}
                THEN Deltas(loc[t]).del ELSE 0], Threads)

\* C8: concurrent RaiseExpectations, LowerExpectations, CreationObserved and
\* DeletionObserved lose no update: each counter of an entry is what the entry
\* was constructed with plus the deltas of all calls that fetched it, less those
\* not yet applied; and a SatisfiedExpectations under way can always take its
\* next step and has no error.
C8_NoLostUpdate ==
    /\ \A o \in ObjIds :
          /\ heap[o].add = hInit[o].add + hDelta[o].add - PendingAdd(o)
          /\ heap[o].del = hInit[o].del + hDelta[o].del - PendingDel(o)
    /\ \A t \in Threads :
          (loc[t].fn = "SatisfiedExpectations" /\ loc[t].pc # "idle")
              => (CanStep(Cur, t) /\ ~loc[t].err)

\* a Raise and a Lower at work on the same entry at once
C8_Witness ==
    \E t \in Threads, u \in Threads :
        /\ t # u
        /\ loc[t].exp # NoObj /\ loc[t].exp = loc[u].exp
        /\ store[loc[t].key] = loc[t].exp
        /\ loc[t].fn = "RaiseExpectations" /\ loc[t].pc = "add_del"
        /\ loc[u].fn = "LowerExpectations" /\ loc[u].pc = "add_add"

\* C9: SetExpectations is last-write-wins per key: the entry of k is exactly
\* what the last store.Add for k put there (one call's add, del and timestamp,
\* the counters moved only by the calls that fetched that entry since), and
\* there is an entry exactly when an Add was the last write.
C9_LastSetWins ==
    \A k \in Keys :
        /\ HasEntry(k) <=> lastAdd[k].exists
        /\ HasEntry(k) =>
              /\ Entry(k).key = k
              /\ Entry(k).timestamp = lastAdd[k].timestamp
              /\ Entry(k).add - hDelta[store[k]].add + PendingAdd(store[k]) = lastAdd[k].add
              /\ Entry(k).del - hDelta[store[k]].del + PendingDel(store[k]) = lastAdd[k].del

\* a SetExpectations about to add the entry it constructed before the entry
\* that another SetExpectations has put in the store meanwhile
C9_Witness ==
    \E t \in Threads :
        /\ loc[t].fn = "SetExpectations" /\ loc[t].pc = "set_add"
        /\ HasEntry(loc[t].key)
        /\ lastAdd[loc[t].key].timestamp > loc[t].ts
        /\ lastAdd[loc[t].key].add # loc[t].add

\* the call moved the counters of the entry of k by these deltas and nothing else
CountersMoved(k, dAdd, dDel) ==
    /\ store' = store
    /\ uidStore' = uidStore
    /\ heap' = IF HasEntry(k)
               THEN [heap EXCEPT ![store[k]].add = @ + dAdd, ![store[k]].del = @ + dDel]
               ELSE heap

\* C10: RaiseExpectations, LowerExpectations, CreationObserved and
\* DeletionObserved change only the two counters of the entry of k, by exactly
\* the deltas passed; its timestamp and identity stay; with no entry for k they
\* change nothing and create none; no other key's entry changes.
C10_OnlyCountersChange ==
    [][\A k \in Keys, a \in Counts, d \in Counts :
          /\ (Returns("RaiseExpectations") /\ loc[Client] = CallRaiseExpectations(k, a, d))
                => CountersMoved(k, a, d)
          /\ (Returns("LowerExpectations") /\ loc[Client] = CallLowerExpectations(k, a, d))
                => CountersMoved(k, -a, -d)
          /\ (Returns("CreationObserved") /\ loc[Client] = CallCreationObserved(k))
                => CountersMoved(k, -1, 0)
          /\ (Returns("DeletionObserved") /\ loc[Client] = CallDeletionObserved(k))
                => CountersMoved(k, 0, -1)]_vars

\* an older entry lowered below zero, with the other key's entry beside it
C10_Witness ==
    \E k \in Keys, j \in Keys :
        /\ j # k
        /\ last.pc = "done" /\ last.fn = "LowerExpectations" /\ last.key = k
        /\ HasEntry(k) /\ Age(k) > 0
        /\ Entry(k).add < 0 /\ Entry(k).del < 0
        /\ HasEntry(j)

\* C11: when the backing store's GetByKey fails, SatisfiedExpectations(k)
\* returns true whatever the counters stored for k are.
C11_ReadErrorIsSatisfied ==
    \A k \in Keys : (SatisfiedReturned(k) /\ "GetByKey" \in faults) => last.ret

\* the read fails for a key whose entry is neither fulfilled nor expired
C11_Witness ==
    \E k \in Keys :
        /\ SatisfiedReturned(k) /\ "GetByKey" \in faults
        /\ HasEntry(k) /\ Entry(k).add > 0 /\ Entry(k).del > 0
        /\ Age(k) <= ExpectationsTimeout
        /\ last.ret

\* the identities of a list, each once
Distinct(l) == {l[i] : i \in DOMAIN l}

\* after the call, the identity set of k holds exactly the identities of l
Tracked(k, l) == uidStore'[k] = [exists |-> TRUE, uids |-> Distinct(l)]

\* C12, as stated: the UID-aware ExpectDeletions(k, identities) replaces the
\* identity set of k by the identities passed and sets the entry of k to
\* add = 0 and del = len(identities).
C12_DelIsLengthOfList ==
    [][\A k \in Keys, l \in Batches :
          (Returns("UIDExpectDeletions") /\ loc[Client] = CallUIDExpectDeletions(k, l)) =>
              (Tracked(k, l) /\ Replaced(k, 0, Len(l)))]_vars

\* C12, amended: the UID-aware ExpectDeletions(k, identities) replaces the
\* identity set of k by the identities passed, whatever batch was there, and
\* sets the entry of k to add = 0 and del = the number of distinct identities
\* passed.
C12_DelIsNumberOfDistinct ==
    [][\A k \in Keys, l \in Batches :
          (Returns("UIDExpectDeletions") /\ loc[Client] = CallUIDExpectDeletions(k, l)) =>
              (Tracked(k, l) /\ Replaced(k, 0, Cardinality(Distinct(l))))]_vars

\* one identity passed twice is expected once
C12_Witness ==
    \E k \in Keys, x \in UIDs :
        /\ last.pc = "done" /\ last.fn = "UIDExpectDeletions"
        /\ last.key = k /\ last.uids = <<x, x>>
        /\ uidStore[k] = [exists |-> TRUE, uids |-> {x}]
        /\ HasEntry(k) /\ Entry(k).add = 0 /\ Entry(k).del = 1

\* the state a call of fr by the client leaves, made in state S
Calling(S, fr) == Settle(RunCall([S EXCEPT !.loc[Client] = fr], Client))

\* what a call of fr by the client returns, made in state S
Result(S, fr) == RunCall([S EXCEPT !.loc[Client] = fr], Client).loc[Client]

\* the stores of state S are those after the step
SameStores(S) == S.store = store' /\ S.heap = heap' /\ S.uidStore = uidStore'

\* C13: the UID-aware DeleteExpectations(k) removes the entry of k and the
\* identity set of k; afterwards SatisfiedExpectations(k) is true, GetUIDs(k)
\* is absent, and a following DeletionObserved(k, x) changes nothing.
C13_UIDDeleteClearsBoth ==
    [][\A k \in Keys :
          (Returns("UIDDeleteExpectations") /\ loc[Client] = CallUIDDeleteExpectations(k)) =>
              /\ store'[k] = NoObj
              /\ uidStore'[k] = NoUIDSet
              /\ ~GetUIDs(Cur', k).exists
              /\ Result(Cur', CallSatisfiedExpectations(k)).ret
              /\ \A x \in UIDs :
                    SameStores(Calling(Cur', CallUIDDeletionObserved(k, x)))]_vars

\* an identity set (and with it an entry) was there to delete
C13_Witness ==
    /\ last.pc = "done" /\ last.fn = "UIDDeleteExpectations" /\ last.exists
    /\ ~HasEntry(last.key)
    /\ uidStore[last.key] = NoUIDSet

\* C14: DeleteExpectations(k) is idempotent: a second call, or a call on a key
\* without entry, changes nothing; it never fails; and it leaves the entries of
\* the other keys as they were.
C14_DeleteIdempotent ==
    [][\A k \in Keys :
          (Returns("DeleteExpectations") /\ loc[Client] = CallDeleteExpectations(k)) =>
              /\ "GetByKey" \notin faults => store'[k] = NoObj
              /\ SameStores(Calling(Cur', CallDeleteExpectations(k)))
              /\ store[k] = NoObj => (store' = store /\ heap' = heap)
              /\ ~last'.err
              /\ uidStore' = uidStore
              /\ \A j \in Keys \ {k} :
                    /\ store'[j] = store[j]
                    /\ store[j] # NoObj => heap'[store[j]] = heap[store[j]]]_vars

\* one entry has been deleted, the entry of the other key is still there
C14_Witness ==
    \E k \in Keys, j \in Keys :
        /\ last.pc = "done" /\ last.fn = "DeleteExpectations"
        /\ last.key = k /\ last.exists
        /\ ~HasEntry(k)
        /\ j # k /\ HasEntry(j)

----------------------------------------------------------------------------
(* Machine control *)

\* a controller reference that validateControllerRef is to turn down
InvalidRef(r) ==
    \/ r.nil
    \/ r.APIVersion = ""
    \/ r.Kind = ""
    \/ r.Controller # "true"
    \/ r.BlockOwnerDeletion # "true"

\* the template of the call had no labels: a nil map or an empty one
EmptyLabels == Contents(mc.before, mc.template.Labels) = {}

\* the remote calls of the call that are creates
Creates == {i \in DOMAIN mc.calls : mc.calls[i].op = "Create"}

\* C15: CreateMachinesWithControllerRef, real and fake, validates the
\* controller reference before anything else: with a reference that is nil, has
\* an empty APIVersion or Kind, or has Controller or BlockOwnerDeletion unset or
\* false, it returns a validation error, makes no remote call and records no
\* event.
C15_InvalidRefStopsCreate ==
    (mc.fn = "CreateMachinesWithControllerRef" /\ InvalidRef(mc.controllerRef)) =>
        /\ mc.err # NoError /\ mc.err.kind = "errorString"
        /\ mc.err.msg # <<"unable to create machines, no labels">>
        /\ mc.calls = <<>>
        /\ mc.events = <<>>
        /\ mc.machine.nil /\ mc.mem = mc.before

\* the fake is given a reference whose Controller flag is false, and nothing
\* else stands in the way of the create
C15_Witness ==
    /\ mc.fn = "CreateMachinesWithControllerRef" /\ mc.impl = Fake
    /\ ~mc.controllerRef.nil
    /\ mc.controllerRef.APIVersion # "" /\ mc.controllerRef.Kind # ""
    /\ mc.controllerRef.Controller = "false"
    /\ mc.controllerRef.BlockOwnerDeletion = "true"
    /\ ~EmptyLabels /\ mc.object.meta /\ mc.outcome = NoError
    /\ mc.err = Errorf("controllerRef.Controller is not set to true", NoError)
    /\ mc.calls = <<>> /\ mc.events = <<>>

\* C16: CreateMachines and CreateMachinesWithControllerRef return an error and
\* make no remote create when the machine's label set is empty (the template's
\* labels nil or empty); no machine is sent to the remote API without labels.
C16_NoCreateWithoutLabels ==
    /\ (mc.fn \in {"CreateMachines", "CreateMachinesWithControllerRef"} /\ EmptyLabels) =>
          (mc.err # NoError /\ Creates = {})
    /\ \A i \in Creates : mc.calls[i].machine.Labels # {}

\* a template with an empty, not nil, label map, and nothing else in the way
C16_Witness ==
    /\ mc.fn = "CreateMachines"
    /\ mc.template.Labels # Nil /\ EmptyLabels
    /\ mc.object.meta /\ mc.outcome = NoError
    /\ mc.err = Errorf("unable to create machines, no labels", NoError)
    /\ mc.calls = <<>>

\* the create has got as far as the remote call, and has returned
PassesValidation ==
    /\ mc.pc = "done"
    /\ mc.fn \in {"CreateMachines", "CreateMachinesWithControllerRef"}
    /\ mc.fn = "CreateMachinesWithControllerRef" => ~InvalidRef(mc.controllerRef)
    /\ mc.object.meta
    /\ ~EmptyLabels

\* the events of the call are this one event about the parent object
OneEvent(eventtype, reason) ==
    /\ Len(mc.events) = 1
    /\ mc.events[1].object = mc.object
    /\ mc.events[1].type = eventtype
    /\ mc.events[1].reason = reason

\* C17: a create of RealMachineControl that passes validation makes exactly
\* one remote create; when that succeeds, a success event about the parent is
\* recorded and nil returned; when it fails, a warning event about the parent
\* is recorded and the error of the remote call is returned as it is.
C17_OneCreateThenEvent ==
    (mc.impl = Real /\ PassesValidation) =>
        /\ Len(mc.calls) = 1 /\ mc.calls[1].op = "Create"
        /\ IF mc.outcome = NoError
           THEN OneEvent("Normal", SuccessfulCreateMachineReason) /\ mc.err = NoError
           ELSE OneEvent("Warning", FailedCreateMachineReason) /\ mc.err = mc.outcome

\* the remote create is refused, and the caller is told so
C17_Witness ==
    /\ mc.impl = Real /\ PassesValidation
    /\ mc.fn = "CreateMachinesWithControllerRef"
    /\ mc.outcome = StatusError("Forbidden")
    /\ mc.err = StatusError("Forbidden")
    /\ OneEvent("Warning", FailedCreateMachineReason)

\* the method of the call W run from where it is to its return
RunToReturn(W) == MachineControl(MachineControl(MachineControl(W)))

\* the call made last, made again on implementation impl
Again(impl) ==
    RunToReturn([mc EXCEPT !.impl = impl, !.pc = "call", !.mem = mc.before,
                           !.machine = NoMachine, !.calls = <<>>, !.events = <<>>,
                           !.err = NoError, !.mutated = Nil])

\* the remote calls, without the names that the implementations are to give
\* in their own ways
Unnamed(remoteCalls) ==
    [i \in DOMAIN remoteCalls |->
        [remoteCalls[i] EXCEPT !.machine.Name = <<>>, !.machine.GenerateName = <<>>]]

\* C18: for the same arguments and the same outcome of the remote call,
\* CreateMachines, CreateMachinesWithControllerRef, DeleteMachine and
\* PatchMachine of the real and of the fake implementation make the same
\* remote calls, record the same events and return the same error.
C18_RealAndFakeAgree ==
    (mc.fn \in MachineFns \ {"GetMachineFromTemplate"}) =>
        /\ Unnamed(Again(Real).calls) = Unnamed(Again(Fake).calls)
        /\ Again(Real).events = Again(Fake).events
        /\ Again(Real).err = Again(Fake).err

\* C19: when the remote delete fails, not-found included, DeleteMachine
\* records a warning event and returns the error of the remote call itself, so
\* that the caller can tell its kind.
C19_DeleteErrorVerbatim ==
    (mc.fn = "DeleteMachine" /\ mc.pc = "done" /\ mc.object.meta /\ mc.outcome # NoError) =>
        /\ OneEvent("Warning", FailedDeleteMachineReason)
        /\ mc.err = mc.outcome
        /\ mc.err.kind = mc.outcome.kind

\* what the collection in a field of a machine or of a template holds
FieldContents(mem, holder, field) ==
    IF field = "Finalizers" THEN Elements(mem, holder.Finalizers)
    ELSE Contents(mem, Pointer(holder, field))

\* a machine has been materialized and nothing has been written since
Materialized == ~mc.machine.nil /\ mc.mutated = Nil

\* C20: materialization leaves the template as it was, and the machine's
\* labels, annotations, finalizers and spec hold what the template's hold but
\* are collections of their own: a later write to one of the machine's does not
\* change the template's, nor a write to the template's the machine's.
C20_MachineIsACopy ==
    [][/\ Materialized' =>
            /\ mc'.machine.Spec.Class = mc'.template.Spec.Class
            /\ \A f \in Fields :
                  /\ FieldContents(mc'.mem, mc'.machine, f)
                        = FieldContents(mc'.mem, mc'.template, f)
                  /\ FieldContents(mc'.mem, mc'.template, f)
                        = FieldContents(mc'.before, mc'.template, f)
                  /\ Pointer(mc'.machine, f) \notin TemplateAddrs
       /\ (Materialized /\ mc'.mutated = "machine") =>
            \A f \in Fields : FieldContents(mc'.mem, mc'.template, f)
                                 = FieldContents(mc.mem, mc.template, f)
       /\ (Materialized /\ mc'.mutated = "template") =>
            \A f \in Fields : FieldContents(mc'.mem, mc'.machine, f)
                                 = FieldContents(mc.mem, mc.machine, f)]_vars

\* a label has been added to the machine and the template does not have it
C20_Witness ==
    /\ mc.mutated = "machine"
    /\ mc.template.Labels # Nil
    /\ "label" \in Contents(mc.mem, mc.template.Labels)
    /\ "changed" \in Contents(mc.mem, mc.machine.Labels)
    /\ "changed" \notin Contents(mc.mem, mc.template.Labels)


----------------------------------------------------------------------------
(* The annotation updaters *)

\* the last entry of a log
Latest(log) == log[Len(log)]

\* the attempt that is running made a write, and the write failed with a conflict
WriteConflicted ==
    /\ upd.writes # <<>>
    /\ Latest(upd.writes).attempt = upd.attempt
    /\ IsConflict(Latest(upd.writes).err)

\* C21: a write that fails with a conflict triggers the next attempt while
\* the attempts made are fewer than 5, and when the fifth attempt ends in a
\* conflict too the invocation returns the conflict error.
C21_WriteConflictRetried ==
    WriteConflicted =>
        IF upd.attempt < UpdateAnnotationBackoffSteps
        THEN upd.pc = "fetch"
        ELSE upd.pc = "done" /\ IsConflict(upd.err)

\* the invocation has returned after a fetch that reported not-found
FetchNotFound ==
    /\ upd.pc = "done"
    /\ upd.reads # <<>>
    /\ Latest(upd.reads).err.kind = "NotFound"

\* the invocation has returned after a merge that changed nothing
MergeNoChange ==
    /\ upd.pc = "done"
    /\ upd.merges # <<>>
    /\ Latest(upd.merges).attempt = upd.attempt
    /\ Latest(upd.merges).err = NoError
    /\ ~Latest(upd.merges).updated

\* C22: an invocation whose fetch reports not-found, or whose merge into the
\* node fetched changes nothing, makes no write and returns success.
C22_NoWriteWhenNothingToDo ==
    FetchNotFound \/ MergeNoChange => upd.writes = <<>> /\ upd.err = NoError

\* both cases are met: here the merge that changes nothing, in an invocation
\* given annotations to put on the node
C22_Witness ==
    /\ MergeNoChange
    /\ upd.fn = "AddOrUpdateAnnotationOnNode"
    /\ DOMAIN upd.annotations.m # {}
    /\ upd.writes = <<>>
    /\ upd.err = NoError

\* an updater was called with nothing to do: no annotations (a nil map or a
\* map of size 0) or no node name
NothingAsked ==
    /\ upd.pc # "idle"
    /\ \/ upd.annotations.nil
       \/ DOMAIN upd.annotations.m = {}
       \/ upd.nodeName = ""

\* C23: an updater called with an empty annotation map (nil or of size 0) or
\* with the empty node name makes no remote read and no remote write and
\* returns success.
C23_NoOpOnEmpty ==
    NothingAsked => upd.reads = <<>> /\ upd.writes = <<>> /\ upd.err = NoError

\* an invocation never makes more attempts, fetches or writes than the
\* backoff has steps, and each attempt makes one fetch
AttemptsBounded ==
    /\ upd.attempt <= UpdateAnnotationBackoffSteps
    /\ Len(upd.reads) = upd.attempt
    /\ Len(upd.reads) <= UpdateAnnotationBackoffSteps
    /\ Len(upd.writes) <= UpdateAnnotationBackoffSteps

\* an error that is no conflict
OtherError(err) == err # NoError /\ ~IsConflict(err)

\* the invocation ended in the attempt given and returned err
EndedIn(attempt, err) ==
    /\ upd.attempt = attempt
    /\ upd.pc = "done"
    /\ upd.err = err

\* an error of the merge or of the write that is no conflict ends the loop in
\* its attempt and is returned, that of the write inside the error that
\* UpdateNodeAnnotations makes of it
MergeOrWriteErrorReturned ==
    /\ \A i \in DOMAIN upd.merges :
          OtherError(upd.merges[i].err)
              => EndedIn(upd.merges[i].attempt, upd.merges[i].err)
    /\ \A i \in DOMAIN upd.writes :
          OtherError(upd.writes[i].err)
              => EndedIn(upd.writes[i].attempt,
                         Errorf("failed to create or update annotations for node: ",
                                upd.writes[i].err))

\* C24 as stated: an invocation makes at most 5 attempts, and every error
\* that is no conflict, of the fetch, the merge or the write, ends the loop in
\* its attempt and is returned.
C24_EveryOtherErrorReturned ==
    /\ AttemptsBounded
    /\ MergeOrWriteErrorReturned
    /\ \A i \in DOMAIN upd.reads :
          OtherError(upd.reads[i].err)
              => EndedIn(upd.reads[i].attempt, upd.reads[i].err)

\* C24 amended: an invocation makes at most 5 attempts, and every error that
\* is no conflict ends the loop in its attempt; it is returned, except that a
\* not-found of the fetch makes the invocation return success.
C24_OtherErrorEndsLoop ==
    /\ AttemptsBounded
    /\ MergeOrWriteErrorReturned
    /\ \A i \in DOMAIN upd.reads :
          OtherError(upd.reads[i].err)
              => EndedIn(upd.reads[i].attempt,
                         IF upd.reads[i].err.kind = "NotFound" THEN NoError
                         ELSE upd.reads[i].err)

\* the fifth attempt is reached, and its fetch fails with an error that is
\* no conflict and is returned
C24_Witness ==
    /\ upd.attempt = UpdateAnnotationBackoffSteps
    /\ OtherError(Latest(upd.reads).err)
    /\ Latest(upd.reads).err.kind # "NotFound"
    /\ EndedIn(UpdateAnnotationBackoffSteps, Latest(upd.reads).err)

\* the node that the write of an attempt sends, computed from the node that
\* the fetch of that attempt returned
ComputedFrom(read) ==
    [read.node EXCEPT !.ann = Recompute(upd.fn, read.node, upd.annotations.m).newNode.ann]

\* C25: in one invocation only the first attempt fetches the node with
\* resource version "0"; every later attempt fetches it with the consistent
\* read, and the write of an attempt is computed from the node fetched in
\* that attempt.
C25_OnlyFirstReadCached ==
    /\ \A i \in DOMAIN upd.reads :
          /\ upd.reads[i].attempt = i
          /\ upd.reads[i].resourceVersion = (IF i = 1 THEN "0" ELSE "")
    /\ \A j \in DOMAIN upd.writes :
          /\ upd.writes[j].attempt \in DOMAIN upd.reads
          /\ upd.reads[upd.writes[j].attempt].err = NoError
          /\ upd.writes[j].node = ComputedFrom(upd.reads[upd.writes[j].attempt])

\* a later attempt has fetched the node with the consistent read and has
\* written the node computed from it, after a first attempt that asked for
\* resource version "0"
C25_Witness ==
    /\ upd.writes # <<>>
    /\ Latest(upd.writes).attempt >= 2
    /\ upd.reads[1].resourceVersion = "0"
    /\ Latest(upd.reads).resourceVersion = ""
    /\ Latest(upd.writes).node = ComputedFrom(Latest(upd.reads))
    /\ Latest(upd.writes).err = NoError

----------------------------------------------------------------------------
(* The comparators *)

\* the integers that the priority annotations of the model denote
PriorityIntegers ==
    (<<"1">> :> 1) @@ (<<"3">> :> 3) @@ (<<"5">> :> 5) @@ (<<"-", "1">> :> (0 - 1))
        @@ (<<"+", "5">> :> 5) @@ (<<"1", "3">> :> 13)

\* the priority as stated: the annotation's integer, and 3 when the
\* annotation is absent, empty or no integer
StatedPriority(machine) ==
    IF machine.annotations.nil \/ machine.annotations.priority \notin DOMAIN PriorityIntegers
    THEN 3
    ELSE PriorityIntegers[machine.annotations.priority]

\* the rank table as stated
StatedRank ==
    ("Terminating" :> 0) @@ ("Failed" :> 1) @@ ("CrashLoopBackOff" :> 2) @@ ("Unknown" :> 3)
        @@ ("Pending" :> 4) @@ ("Available" :> 5) @@ ("Running" :> 6)

\* the lexicographic order of triples of integers
LexLess(x, y) ==
    \/ x[1] < y[1]
    \/ x[1] = y[1] /\ x[2] < y[2]
    \/ x[1] = y[1] /\ x[2] = y[2] /\ x[3] < y[3]

\* priority, phase rank and creation time of a machine in a phase of the table
StatedKey(machine) ==
    <<StatedPriority(machine), StatedRank[machine.phase], machine.creationTimestamp.instant>>

\* the phase and the stated priority of each machine of a slice
PhaseAndPriority(s) == [k \in DOMAIN s |-> <<s[k].phase, StatedPriority(s[k])>>]

\* C26: ActiveMachines.Less(i, j) is the lexicographic order by priority (3
\* when the annotation is absent, empty or no integer), then phase rank, then
\* creation time, false both ways when the three are equal; and machines of
\* priorities 5, 3, 3 in phases running, running, terminating are sorted to
\* terminating/3, running/3, running/5.
C26_DeletionPriorityOrder ==
    /\ (/\ pure.fn = "ActiveMachines.Less"
        /\ \A k \in 1..2 : pure.machines[k].phase \in DOMAIN StatedRank)
           => pure.less = LexLess(StatedKey(pure.machines[pure.i]),
                                  StatedKey(pure.machines[pure.j]))
    /\ (/\ pure.fn = "sort.Sort(ActiveMachines)"
        /\ PhaseAndPriority(pure.machines)
              = <<<<"Running", 5>>, <<"Running", 3>>, <<"Terminating", 3>>>>)
           => PhaseAndPriority(pure.sorted)
                 = <<<<"Terminating", 3>>, <<"Running", 3>>, <<"Running", 5>>>>

\* two machines of priority 3, one by default as its annotation is no
\* integer, are ordered by their phases
C26_Witness ==
    /\ pure.fn = "ActiveMachines.Less"
    /\ pure.i = 1 /\ pure.j = 2
    /\ pure.machines[1].annotations.priority = <<"3", "a">>
    /\ pure.machines[2].annotations.priority = <<"3">>
    /\ pure.machines[1].phase = "Failed"
    /\ pure.machines[2].phase = "Running"
    /\ Before(pure.machines[2].creationTimestamp, pure.machines[1].creationTimestamp)
    /\ pure.less

\* the names of the model from the first to the last
NameOrder == <<<<"a">>, <<"a", "-", "c">>, <<"a", "b">>, <<"b">>>>

\* the place of a name in that order
NamePlace(name) == CHOOSE k \in DOMAIN NameOrder : NameOrder[k] = name

\* ascending creation time, with the name as tie-break
OlderFirst(x, y) ==
    \/ x.creationTimestamp.instant < y.creationTimestamp.instant
    \/ /\ x.creationTimestamp.instant = y.creationTimestamp.instant
       /\ NamePlace(x.name) < NamePlace(y.name)

\* C27: both size comparators put the machine set of more replicas first;
\* of two sets of equal replicas MachineSetsBySizeOlder puts first the one
\* created earlier, the name breaking ties, and MachineSetsBySizeNewer.Less(i, j)
\* is MachineSetsBySizeOlder.Less(j, i).
C27_SizeComparators ==
    LET x == pure.sets[pure.i]
        y == pure.sets[pure.j]
    IN /\ (/\ pure.fn \in {"MachineSetsBySizeOlder.Less", "MachineSetsBySizeNewer.Less"}
           /\ x.replicas # y.replicas)
              => pure.less = (x.replicas > y.replicas)
       /\ (/\ pure.fn = "MachineSetsBySizeOlder.Less"
           /\ x.replicas = y.replicas)
              => pure.less = OlderFirst(x, y)
       /\ (/\ pure.fn = "MachineSetsBySizeNewer.Less"
           /\ x.replicas = y.replicas)
              => pure.less = MachineSetsBySizeOlderLess(pure.sets, pure.j, pure.i)

\* two machine sets of equal replicas created at the same instant: the newer
\* first comparator orders them by their names reversed
C27_Witness ==
    /\ pure.fn = "MachineSetsBySizeNewer.Less"
    /\ pure.i = 1 /\ pure.j = 2
    /\ pure.sets[1].replicas = pure.sets[2].replicas
    /\ pure.sets[1].creationTimestamp # pure.sets[2].creationTimestamp
    /\ Equal(pure.sets[1].creationTimestamp, pure.sets[2].creationTimestamp)
    /\ pure.sets[1].name = <<"a", "b">>
    /\ pure.sets[2].name = <<"a", "-", "c">>
    /\ pure.less

----------------------------------------------------------------------------
(* ComputeHash *)

\* the entries of a map, in whatever order it gives them
Entries(labels) == {labels[p] : p \in DOMAIN labels}

\* two templates with the same content
SameTemplate(t, u) == t.class = u.class /\ Entries(t.labels) = Entries(u.labels)

\* ComputeHash was called twice
Twice == pure.fn = "ComputeHash" /\ Len(pure.hashes) = 2

\* C28: two calls of ComputeHash with templates of the same content, also
\* when their label maps give the entries in different orders, and with the
\* same collision count (none, or the same value) return the same hash, and a
\* call leaves the template and the count as they were: what the memory holds
\* of them when the call returns is what the caller passed.
C28_HashDeterministic ==
    /\ \A k \in DOMAIN pure.hashes :
          /\ pure.hashes[k].templateAfter = pure.hashes[k].template
          /\ pure.hashes[k].collisionCountAfter = pure.hashes[k].collisionCount
    /\ (/\ Twice
        /\ SameTemplate(pure.hashes[1].template, pure.hashes[2].template)
        /\ pure.hashes[1].collisionCount = pure.hashes[2].collisionCount)
           => pure.hashes[1].sum = pure.hashes[2].sum

\* two templates whose maps give the same two labels in different orders are
\* hashed with the same collision count
C28_Witness ==
    /\ Twice
    /\ Len(pure.hashes[1].template.labels) = 2
    /\ pure.hashes[1].template.labels # pure.hashes[2].template.labels
    /\ SameTemplate(pure.hashes[1].template, pure.hashes[2].template)
    /\ ~pure.hashes[1].collisionCount.nil
    /\ pure.hashes[1].collisionCount = pure.hashes[2].collisionCount
    /\ pure.hashes[1].sum = pure.hashes[2].sum

\* the same template was hashed twice with different collision counts
CountChanged ==
    /\ Twice
    /\ pure.hashes[1].template = pure.hashes[2].template
    /\ pure.hashes[1].collisionCount # pure.hashes[2].collisionCount

\* C29 as stated: for a template, any two different collision counts give
\* different hashes, and a count gives a hash different from that of no count.
C29_AnyCountChangesHash ==
    CountChanged => pure.hashes[1].sum # pure.hashes[2].sum

\* C29 amended: for a template, any two different collision counts below
\* 65536 give different hashes.
C29_SmallCountChangesHash ==
    (/\ CountChanged
     /\ \A k \in 1..2 : /\ ~pure.hashes[k].collisionCount.nil
                        /\ pure.hashes[k].collisionCount.value >= 0
                        /\ pure.hashes[k].collisionCount.value < 65536)
        => pure.hashes[1].sum # pure.hashes[2].sum

\* the same template is hashed with the counts 255 and 256
C29_Witness ==
    /\ CountChanged
    /\ ~pure.hashes[1].collisionCount.nil /\ pure.hashes[1].collisionCount.value = 255
    /\ ~pure.hashes[2].collisionCount.nil /\ pure.hashes[2].collisionCount.value = 256
    /\ pure.hashes[1].sum # pure.hashes[2].sum

\* a template for which two collision counts give the same hash
CountsCollide ==
    /\ CountChanged
    /\ pure.hashes[1].collisionCount = [nil |-> FALSE, value |-> 61142824]
    /\ pure.hashes[2].collisionCount = [nil |-> FALSE, value |-> 67108868]
    /\ pure.hashes[1].sum = pure.hashes[2].sum

\* a template for which a collision count gives the hash of no count
CountUnseen ==
    /\ CountChanged
    /\ pure.hashes[1].collisionCount.nil
    /\ pure.hashes[2].collisionCount = [nil |-> FALSE, value |-> 1364430845]
    /\ pure.hashes[1].sum = pure.hashes[2].sum

----------------------------------------------------------------------------
(* Expectations are only lowered *)

\* the client's call that returns in this step sets expectations
ReturnsSet ==
    \/ Returns("SetExpectations")
    \/ Returns("ExpectCreations")
    \/ Returns("ExpectDeletions")
    \/ Returns("UIDExpectDeletions")

\* C30: once expectations are set for a key, its counters are only lowered:
\* no step other than the return of a call that sets expectations leaves the
\* add or the del counter of an entry larger than it was, so an entry that is
\* fulfilled stays fulfilled until expectations are set again.
C30_OnlyLowered ==
    [][~ReturnsSet =>
          \A k \in Keys :
              (store[k] # NoObj /\ store'[k] # NoObj) =>
                  /\ heap'[store'[k]].add <= heap[store[k]].add
                  /\ heap'[store'[k]].del <= heap[store[k]].del
                  /\ Fulfilled(heap[store[k]].add, heap[store[k]].del)
                        => Fulfilled(heap'[store'[k]].add, heap'[store'[k]].del)]_vars

----------------------------------------------------------------------------
(* The wrapper forwards what it does not override *)

\* the methods of the claim that the wrapper has from the interface it embeds
Forwarded ==
    {"SetExpectations", "ExpectCreations", "RaiseExpectations", "LowerExpectations",
     "CreationObserved"}

\* C31: SetExpectations, ExpectCreations, RaiseExpectations, LowerExpectations
\* and CreationObserved called on the wrapper leave the identity set of every
\* key and the wrapper's mutex as they are and touch no entry but that of the
\* key they are called for; after ExpectCreations(k, n) the entry of k has
\* del = 0 while the set of k holds what it held.
C31_ForwardedLeaveUIDs ==
    [][\A fn \in Forwarded :
          Returns(fn) =>
              /\ uidStore' = uidStore
              /\ uidStoreLock' = uidStoreLock
              /\ \A k \in Keys \ {loc[Client].key} :
                    /\ store'[k] = store[k]
                    /\ store[k] # NoObj => heap'[store[k]] = heap[store[k]]
              /\ fn = "ExpectCreations" =>
                    /\ store'[loc[Client].key] # NoObj
                    /\ heap'[store'[loc[Client].key]].del = 0
                    /\ heap'[store'[loc[Client].key]].add = loc[Client].add]_vars

\* ExpectCreations(k, n) has returned after the UID-aware ExpectDeletions(k, ids):
\* the set of k still holds the identities and the del counter is 0
C31_Witness ==
    \E k \in Keys :
        /\ last.pc = "done" /\ last.fn = "ExpectCreations" /\ last.key = k
        /\ uidStore[k].exists /\ uidStore[k].uids = UIDs
        /\ HasEntry(k) /\ Entry(k).del = 0 /\ Entry(k).add = last.add
        /\ last.add > 0

----------------------------------------------------------------------------
(* The entry and the identity set of a key agree *)

\* k has neither an entry nor a set, or its entry expects as many deletions
\* as its set has identities and no creation
EntryMatchesUIDs(k) ==
    \/ ~HasEntry(k) /\ ~uidStore[k].exists
    \/ /\ HasEntry(k)
       /\ uidStore[k].exists
       /\ Entry(k).del = Cardinality(uidStore[k].uids)
       /\ Entry(k).add = 0
       /\ Entry(k).del >= 0

\* C32: when the threads call only the wrapper's ExpectDeletions,
\* DeletionObserved and DeleteExpectations, then whenever the wrapper's mutex
\* is free a key has neither an entry nor an identity set, or the del counter
\* of its entry is the number of identities in its set, the add counter is 0
\* and the del counter is not negative.
C32_EntryMatchesUIDs ==
    uidStoreLock = NoThread => \A k \in Keys : EntryMatchesUIDs(k)

\* the mutex is free between two observations of a batch of two: one identity
\* is left and one deletion is expected, while another thread waits to observe
C32_Witness ==
    \E k \in Keys, t \in Threads :
        /\ uidStoreLock = NoThread
        /\ HasEntry(k) /\ Entry(k).del = 1
        /\ uidStore[k].exists /\ Cardinality(uidStore[k].uids) = 1
        /\ loc[t].fn = "UIDDeletionObserved" /\ loc[t].pc = "lock"
        /\ loc[t].uid \in uidStore[k].uids

----------------------------------------------------------------------------
(* Observations and the entry they lower *)

\* thread t's CreationObserved or DeletionObserved applies its decrement in
\* this step
Decrements(t) ==
    /\ loc[t].fn \in {"CreationObserved", "DeletionObserved"}
    /\ loc[t].pc \in {"add_add", "add_del"}
    /\ loc'[t] # loc[t]

\* C33: an observation is not lost against the current entry: whenever
\* CreationObserved(k) or DeletionObserved(k) applies its decrement, it
\* applies it to the entry that k has then, be it the one that a concurrent
\* SetExpectations(k, add, del) is about to replace or the one it has set;
\* no decrement is applied to an entry already replaced, leaving the new
\* entry's counter as it was set.
C33_ObservationNotLost ==
    [][\A t \in Threads :
          (Decrements(t) /\ store[loc[t].key] # NoObj)
              => store[loc[t].key] = loc[t].exp]_vars

\* GetExpectations(k) has returned to the client
GetExpectationsReturned(k) ==
    last.pc = "done" /\ last.fn = "GetExpectations" /\ last.key = k

\* C34: GetExpectations(k) reports a failing read of the backing store: when
\* GetByKey fails it returns no entry together with a non-nil error, and the
\* error it returns is nil only when the read succeeded.
C34_ReadErrorReported ==
    \A k \in Keys :
        GetExpectationsReturned(k) =>
            /\ "GetByKey" \in faults => (~last.exists /\ last.err)
            /\ ~last.err => "GetByKey" \notin faults

\* the phases of the rank table that rank after terminating
LaterPhases == DOMAIN StatedRank \ {"Terminating"}

\* C35: in ActiveMachines.Less a machine whose phase is no key of the rank
\* table has phase rank 0: against a machine of the same priority that is
\* terminating the phases tie and the creation time decides, and it is less
\* than every machine of the same priority that is failed, in crash loop
\* backoff, unknown, pending, available or running, and none of these is less
\* than it.
C35_UnknownPhaseRanksZero ==
    LET x == pure.machines[pure.i]
        y == pure.machines[pure.j]
    IN (/\ pure.fn = "ActiveMachines.Less"
        /\ StatedPriority(x) = StatedPriority(y))
          => /\ (x.phase \notin DOMAIN StatedRank /\ y.phase = "Terminating")
                   => pure.less = Before(x.creationTimestamp, y.creationTimestamp)
             /\ (x.phase = "Terminating" /\ y.phase \notin DOMAIN StatedRank)
                   => pure.less = Before(x.creationTimestamp, y.creationTimestamp)
             /\ (x.phase \notin DOMAIN StatedRank /\ y.phase \in LaterPhases)
                   => pure.less
             /\ (x.phase \in LaterPhases /\ y.phase \notin DOMAIN StatedRank)
                   => ~pure.less

\* a machine without a phase, created after a failed machine of the same
\* priority, is less than it
C35_Witness ==
    /\ pure.fn = "ActiveMachines.Less"
    /\ pure.i = 1 /\ pure.j = 2
    /\ pure.machines[1].phase = ""
    /\ pure.machines[2].phase = "Failed"
    /\ StatedPriority(pure.machines[1]) = StatedPriority(pure.machines[2])
    /\ Before(pure.machines[2].creationTimestamp, pure.machines[1].creationTimestamp)
    /\ pure.less

====
